---------------------------- MODULE Spec2Model ----------------------------
(***************************************************************************)
(* SEPTA holiday bus tracker: the in-memory schedule store, the trip-update*)
(* cache, the route predictor and the polling reconciler, as state         *)
(* machines over the module-level state of the backend.                    *)
(*                                                                         *)
(* Conventions.  A nullable JavaScript value is a sequence of length 0     *)
(* (null/undefined) or 1 (the value).  A nullable string is "" when absent *)
(* (every use in the source is a truthiness test).  A Date is the number of*)
(* seconds since local midnight of Monday 2025-12-01; a Unix timestamp of  *)
(* the realtime feeds is counted from the same instant, so new Date(ts *   *)
(* 1000) is ts itself.  A clock string HH:MM:SS is the triple of the       *)
(* numbers its three fields render.  Coordinates are integer grid steps    *)
(* along one meridian.                                                     *)
(***************************************************************************)
EXTENDS Integers, Sequences, FiniteSets, TLC

VARIABLES
  loaded,           \* gtfs-loader: whether loadGtfsData has filled the tables
  tripUpdatesCache,                                          \* trip-updates
  testBusIds, testBusIdList, currentData,                    \* bus-positions
  startPc,          \* position of start()/startPolling()
  cycles,           \* one record per execution of a fetch cycle
  feedsUp,          \* the environment: whether the feeds still answer
  lastCall          \* the last call of getUpcomingRoute and its result

vars == <<loaded,
          tripUpdatesCache, testBusIds, testBusIdList, currentData,
          startPc, cycles, feedsUp, lastCall>>

----------------------------------------------------------------------------
(* Nullable values *)

None == <<>>
Some(x) == <<x>>
IsNull(o) == o = <<>>
Val(o) == o[1]

Range(s) == {s[i] : i \in 1..Len(s)}

(* JavaScript's % : the remainder takes the sign of the dividend *)
JsRem(a, b) == IF a >= 0 THEN a % b ELSE -((-a) % b)

----------------------------------------------------------------------------
(* Dates *)

DaySeconds == 24 * 60 * 60

Hms(h, m, s) == h * 3600 + m * 60 + s
At(day, h, m, s) == day * DaySeconds + Hms(h, m, s)

getHours(date) == (date % DaySeconds) \div 3600
getMinutes(date) == ((date % DaySeconds) % 3600) \div 60
getSeconds(date) == date % 60
\* 2025-12-01 is a Monday; Date.getDay() counts from Sunday = 0
getDay(date) == ((date \div DaySeconds) + 1) % 7
\* December 2025 has 31 days, then January 2026
getFullYear(date) == IF date \div DaySeconds < 31 THEN 2025 ELSE 2026
getMonth(date) == IF date \div DaySeconds < 31 THEN 11 ELSE 0
getDate(date) ==
  IF date \div DaySeconds < 31 THEN date \div DaySeconds + 1
  ELSE date \div DaySeconds - 30

(* route-predictor.js getSecondsOfDay *)
getSecondsOfDay(date) ==
  getHours(date) * 3600 + getMinutes(date) * 60 + getSeconds(date)

(* route-predictor.js unixToTimeString *)
unixToTimeString(unixTimestamp) ==
  <<getHours(unixTimestamp), getMinutes(unixTimestamp), getSeconds(unixTimestamp)>>

(* gtfs-loader formatDate: the YYYYMMDD key; the strings compare as their
   numbers do, all keys having eight digits *)
formatDate(date) ==
  getFullYear(date) * 10000 + (getMonth(date) + 1) * 100 + getDate(date)

(* download-gtfs parseGtfsTime: an absent or malformed string gives null *)
parseGtfsTime(timeStr) ==
  IF IsNull(timeStr) THEN None
  ELSE IF Len(Val(timeStr)) # 3 THEN None
  ELSE Some(Val(timeStr)[1] * 3600 + Val(timeStr)[2] * 60 + Val(timeStr)[3])

----------------------------------------------------------------------------
(* The static schedule the store loads (data/gtfs/*.json) *)

StopTimeRow(stopId, seq, arrival) ==
  [stopId |-> stopId, stopSequence |-> seq,
   arrivalTime |-> arrival, departureTime |-> arrival,
   arrivalSeconds |-> parseGtfsTime(arrival),
   departureSeconds |-> parseGtfsTime(arrival)]

TripRow(route, service, shape) ==
  [routeId |-> route, serviceId |-> service, shapeId |-> shape,
   directionId |-> 0, tripHeadsign |-> "Center City"]

\* T1: the weekday trip of three timed stops; T2: a Sunday-only service;
\* T3: a trip without stop-times; T4: a late trip running past midnight;
\* T5: a trip with an untimed stop and a stop missing from stops.json;
\* T6: a trip whose service has no calendar record; T7: a trip that starts
\* just after midnight; T8: a loop that calls at stop A twice
TripsJson ==
  [t \in {"T1", "T2", "T3", "T4", "T5", "T6", "T7", "T8"} |->
     CASE t = "T1" -> TripRow("1", "WK", "S1")
       [] t = "T2" -> TripRow("1", "SUN", "S1")
       [] t = "T3" -> TripRow("2", "WK", "")
       [] t = "T4" -> TripRow("2", "WK", "S1")
       [] t = "T5" -> TripRow("3", "WK", "S9")
       [] t = "T6" -> TripRow("3", "XX", "S1")
       [] t = "T7" -> TripRow("4", "WK", "S1")
       [] t = "T8" -> TripRow("5", "WK", "S1")]

StopTimesJson ==
  [t \in {"T1", "T2", "T3", "T4", "T5", "T6", "T7", "T8"} |->
     CASE t = "T1" -> << StopTimeRow("A", 1, Some(<<8, 0, 0>>)),
                         StopTimeRow("B", 2, Some(<<8, 10, 0>>)),
                         StopTimeRow("C", 3, Some(<<8, 45, 0>>)) >>
       [] t = "T2" -> << StopTimeRow("A", 1, Some(<<8, 10, 0>>)) >>
       [] t = "T3" -> << >>
       [] t = "T4" -> << StopTimeRow("A", 1, Some(<<23, 55, 0>>)),
                         StopTimeRow("B", 2, Some(<<24, 10, 0>>)) >>
       [] t = "T5" -> << StopTimeRow("A", 1, None),
                         StopTimeRow("Z", 2, Some(<<8, 10, 0>>)),
                         StopTimeRow("C", 3, Some(<<8, 20, 0>>)) >>
       [] t = "T6" -> << StopTimeRow("A", 1, Some(<<8, 10, 0>>)) >>
       [] t = "T7" -> << StopTimeRow("A", 1, Some(<<0, 0, 30>>)),
                         StopTimeRow("B", 2, Some(<<0, 20, 0>>)) >>
       [] t = "T8" -> << StopTimeRow("A", 1, Some(<<8, 0, 0>>)),
                         StopTimeRow("B", 2, Some(<<8, 10, 0>>)),
                         StopTimeRow("A", 3, Some(<<8, 20, 0>>)) >>]

StopsJson ==
  [s \in {"A", "B", "C"} |->
     CASE s = "A" -> [name |-> "A St", lat |-> 1, lon |-> 7]
       [] s = "B" -> [name |-> "B St", lat |-> 3, lon |-> 7]
       [] s = "C" -> [name |-> "C St", lat |-> 5, lon |-> 7]]

ShapePt(lat, seq) == [lat |-> lat, lon |-> 7, sequence |-> seq, distTraveled |-> None]

ShapesJson ==
  [s \in {"S1"} |->
     << ShapePt(0, 1), ShapePt(1, 2), ShapePt(2, 3), ShapePt(3, 4),
        ShapePt(4, 5), ShapePt(5, 6), ShapePt(6, 7) >>]

CalendarRow(weekdays, sunday, startDate, endDate) ==
  [monday |-> weekdays, tuesday |-> weekdays, wednesday |-> weekdays,
   thursday |-> weekdays, friday |-> weekdays, saturday |-> FALSE,
   sunday |-> sunday, startDate |-> startDate, endDate |-> endDate]

\* HOL runs every day but Saturday from 2025-12-15 to 2025-12-31
CalendarJson ==
  [s \in {"WK", "SUN", "HOL"} |->
     CASE s = "WK" -> CalendarRow(TRUE, FALSE, 20251201, 20260105)
       [] s = "SUN" -> CalendarRow(FALSE, TRUE, 20251201, 20260105)
       [] s = "HOL" -> CalendarRow(TRUE, TRUE, 20251215, 20251231)]

CalendarDate(date, exceptionType) == [date |-> date, exceptionType |-> exceptionType]

\* 2025-12-03 (a Wednesday) is removed from WK; XX has only an added date;
\* HOL has added dates before its start, after its end and on a Saturday
\* of its range, and a removed Monday
CalendarDatesJson ==
  [s \in {"WK", "XX", "HOL"} |->
     CASE s = "WK" -> << CalendarDate(20251203, 2) >>
       [] s = "XX" -> << CalendarDate(20251201, 1) >>
       [] s = "HOL" -> << CalendarDate(20251210, 1), CalendarDate(20260102, 1),
                          CalendarDate(20251220, 1), CalendarDate(20251222, 2) >>]

----------------------------------------------------------------------------
(* gtfs-loader.js: the six tables are null until loadGtfsData has parsed
   the six files (lines 88-113), and never change afterwards *)
trips == IF loaded THEN Some(TripsJson) ELSE None
stopTimes == IF loaded THEN Some(StopTimesJson) ELSE None
stops == IF loaded THEN Some(StopsJson) ELSE None
shapes == IF loaded THEN Some(ShapesJson) ELSE None
calendar == IF loaded THEN Some(CalendarJson) ELSE None
calendarDates == IF loaded THEN Some(CalendarDatesJson) ELSE None

(* gtfs-loader.js accessors: table?.[key] ?? null *)

getTrip(tripId) ==
  IF IsNull(trips) THEN None
  ELSE IF tripId \in DOMAIN Val(trips) THEN Some(Val(trips)[tripId]) ELSE None

getStopTimes(tripId) ==
  IF IsNull(stopTimes) THEN None
  ELSE IF tripId \in DOMAIN Val(stopTimes) THEN Some(Val(stopTimes)[tripId]) ELSE None

getStop(stopId) ==
  IF IsNull(stops) THEN None
  ELSE IF stopId \in DOMAIN Val(stops) THEN Some(Val(stops)[stopId]) ELSE None

getShape(shapeId) ==
  IF IsNull(shapes) THEN None
  ELSE IF shapeId \in DOMAIN Val(shapes) THEN Some(Val(shapes)[shapeId]) ELSE None

getCalendar(serviceId) ==
  IF IsNull(calendar) THEN None
  ELSE IF serviceId \in DOMAIN Val(calendar) THEN Some(Val(calendar)[serviceId]) ELSE None

getCalendarDates(serviceId) ==
  IF IsNull(calendarDates) THEN None
  ELSE IF serviceId \in DOMAIN Val(calendarDates)
       THEN Some(Val(calendarDates)[serviceId]) ELSE None

DayFlag(cal, dayOfWeek) ==
  CASE dayOfWeek = 0 -> cal.sunday
    [] dayOfWeek = 1 -> cal.monday
    [] dayOfWeek = 2 -> cal.tuesday
    [] dayOfWeek = 3 -> cal.wednesday
    [] dayOfWeek = 4 -> cal.thursday
    [] dayOfWeek = 5 -> cal.friday
    [] dayOfWeek = 6 -> cal.saturday

(* the for loop over the exceptions: the first one of the date decides *)
RECURSIVE FirstException(_, _, _)
FirstException(exceptions, dateStr, i) ==
  IF i > Len(exceptions) THEN None
  ELSE IF exceptions[i].date = dateStr THEN Some(exceptions[i])
  ELSE FirstException(exceptions, dateStr, i + 1)

(* a lookup that would consult the exceptions before the date range *)
isServiceActiveExceptionsFirst(serviceId, date) ==
  LET cal == getCalendar(serviceId)
      dateStr == formatDate(date)
      exceptions == getCalendarDates(serviceId)
      exc == IF IsNull(exceptions) THEN None
             ELSE FirstException(Val(exceptions), dateStr, 1)
  IN  IF IsNull(cal) THEN FALSE
      ELSE IF ~IsNull(exc) THEN Val(exc).exceptionType = 1
      ELSE IF dateStr < Val(cal).startDate \/ dateStr > Val(cal).endDate THEN FALSE
      ELSE DayFlag(Val(cal), getDay(date))

(* a lookup that would follow the weekly pattern only *)
isServiceActiveWeeklyOnly(serviceId, date) ==
  LET cal == getCalendar(serviceId)
      dateStr == formatDate(date)
  IN  IF IsNull(cal) THEN FALSE
      ELSE IF dateStr < Val(cal).startDate \/ dateStr > Val(cal).endDate THEN FALSE
      ELSE DayFlag(Val(cal), getDay(date))

(* a lookup that would accept the added dates of a service without a
   calendar record *)
isServiceActiveWithoutCalendar(serviceId, date) ==
  LET cal == getCalendar(serviceId)
      dateStr == formatDate(date)
      exceptions == getCalendarDates(serviceId)
      exc == IF IsNull(exceptions) THEN None
             ELSE FirstException(Val(exceptions), dateStr, 1)
  IN  IF ~IsNull(exc) THEN Val(exc).exceptionType = 1
      ELSE IF IsNull(cal) THEN FALSE
      ELSE IF dateStr < Val(cal).startDate \/ dateStr > Val(cal).endDate THEN FALSE
      ELSE DayFlag(Val(cal), getDay(date))

isServiceActiveOnDate(serviceId, date) ==
  LET cal == getCalendar(serviceId)
      dateStr == formatDate(date)
      exceptions == getCalendarDates(serviceId)
      exc == IF IsNull(exceptions) THEN None
             ELSE FirstException(Val(exceptions), dateStr, 1)
  IN  IF IsNull(cal) THEN FALSE
      ELSE IF dateStr < Val(cal).startDate \/ dateStr > Val(cal).endDate THEN FALSE
      ELSE IF ~IsNull(exc) THEN Val(exc).exceptionType = 1
      ELSE DayFlag(Val(cal), getDay(date))

----------------------------------------------------------------------------
(* trip-updates.js: the Trip-Update Cache *)

EmptyMap == << >>

MapSet(map, key, value) ==
  [k \in (DOMAIN map) \cup {key} |-> IF k = key THEN value ELSE map[k]]

(* one decoded StopTimeUpdate as the cache stores it (lines 37-43):
   a time of 0 or an absent time is null, an absent delay is null *)
CachedStopTimeUpdate(stu) ==
  [stopId |-> stu.stopId,
   arrivalTime |->
     IF ~IsNull(stu.arrival) /\ ~IsNull(Val(stu.arrival).time)
        /\ Val(Val(stu.arrival).time) # 0
     THEN Val(stu.arrival).time ELSE None,
   arrivalDelay |->
     IF ~IsNull(stu.arrival) THEN Val(stu.arrival).delay ELSE None,
   departureTime |->
     IF ~IsNull(stu.departure) /\ ~IsNull(Val(stu.departure).time)
        /\ Val(Val(stu.departure).time) # 0
     THEN Val(stu.departure).time ELSE None,
   departureDelay |->
     IF ~IsNull(stu.departure) THEN Val(stu.departure).delay ELSE None]

(* the inner loop over entity.tripUpdate.stopTimeUpdate (lines 33-45) *)
RECURSIVE BuildStopUpdates(_, _, _)
BuildStopUpdates(stus, i, stopUpdates) ==
  IF i > Len(stus) THEN stopUpdates
  ELSE IF ~IsNull(stus[i].stopSequence)
  THEN BuildStopUpdates(stus, i + 1,
         MapSet(stopUpdates, Val(stus[i].stopSequence), CachedStopTimeUpdate(stus[i])))
  ELSE BuildStopUpdates(stus, i + 1, stopUpdates)

(* the loop over feed.entity (lines 28-51) *)
RECURSIVE BuildCache(_, _, _)
BuildCache(entities, i, newCache) ==
  IF i > Len(entities) THEN newCache
  ELSE IF entities[i].tripId # ""
  THEN LET stopUpdates == BuildStopUpdates(entities[i].stopTimeUpdate, 1, EmptyMap)
       IN  IF Cardinality(DOMAIN stopUpdates) > 0
           THEN BuildCache(entities, i + 1, MapSet(newCache, entities[i].tripId, stopUpdates))
           ELSE BuildCache(entities, i + 1, newCache)
  ELSE BuildCache(entities, i + 1, newCache)

(* a refresh that would add the decoded trips to the previous mapping *)
CacheMergedOnSuccess(cache, feed) == BuildCache(feed, 1, cache)

(* the cache after a refresh that fetched and decoded `feed` (lines 25-54) *)
CacheAfterSuccess(cache, feed) == BuildCache(feed, 1, EmptyMap)

(* a refresh that would drop the mapping when it throws *)
CacheClearedOnFailure(cache) == EmptyMap

(* the cache after a refresh that threw: the catch block only logs (56-59) *)
CacheAfterFailure(cache) == cache

getStopPredictionIn(cache, tripId, stopSequence) ==
  IF tripId \in DOMAIN cache
  THEN IF stopSequence \in DOMAIN cache[tripId]
       THEN Some(cache[tripId][stopSequence]) ELSE None
  ELSE None

getStopPrediction(tripId, stopSequence) ==
  getStopPredictionIn(tripUpdatesCache, tripId, stopSequence)

----------------------------------------------------------------------------
(* route-predictor.js *)

PREDICTION_WINDOW_MINUTES == 30

(* haversineDistance: a monotone image of the great-circle distance between
   grid points a few steps apart; the source only compares distances *)
haversineDistance(lat1, lon1, lat2, lon2) ==
  (lat2 - lat1) * (lat2 - lat1) + (lon2 - lon1) * (lon2 - lon1)

(* findClosestShapePoint: the first index of least distance (0-based) *)
RECURSIVE ClosestFrom(_, _, _, _, _, _)
ClosestFrom(shapePoints, lat, lon, i, minDist, closestIdx) ==
  IF i >= Len(shapePoints) THEN closestIdx
  ELSE LET dist == haversineDistance(lat, lon, shapePoints[i + 1].lat, shapePoints[i + 1].lon)
       IN  IF IsNull(minDist) \/ dist < Val(minDist)
           THEN ClosestFrom(shapePoints, lat, lon, i + 1, Some(dist), i)
           ELSE ClosestFrom(shapePoints, lat, lon, i + 1, minDist, closestIdx)

findClosestShapePoint(shapePoints, lat, lon) ==
  ClosestFrom(shapePoints, lat, lon, 0, None, 0)

(* an estimate that would keep the scheduled time of a delayed stop as its
   effective time *)
StopEstimateOnSchedule(prediction, scheduledArrivalSeconds) ==
  LET hasTime == ~IsNull(prediction) /\ ~IsNull(Val(prediction).arrivalTime)
      hasDelay == ~IsNull(prediction) /\ ~IsNull(Val(prediction).arrivalDelay)
      sum == scheduledArrivalSeconds + Val(Val(prediction).arrivalDelay)
  IN  [effectiveArrivalSeconds |->
         IF hasTime THEN getSecondsOfDay(Val(Val(prediction).arrivalTime))
         ELSE scheduledArrivalSeconds,
       predictedArrivalTime |->
         IF hasTime THEN Some(unixToTimeString(Val(Val(prediction).arrivalTime)))
         ELSE IF hasDelay
         THEN Some(<< JsRem(sum \div 3600, 24), JsRem(sum, 3600) \div 60, JsRem(sum, 60) >>)
         ELSE None,
       arrivalDelay |-> IF hasDelay THEN Val(prediction).arrivalDelay ELSE None,
       isRealTime |-> hasTime \/ hasDelay]

(* an estimate that would prefer the delay to the absolute arrival time *)
StopEstimateDelayFirst(prediction, scheduledArrivalSeconds) ==
  LET hasTime == ~IsNull(prediction) /\ ~IsNull(Val(prediction).arrivalTime)
      hasDelay == ~IsNull(prediction) /\ ~IsNull(Val(prediction).arrivalDelay)
      sum == scheduledArrivalSeconds + Val(Val(prediction).arrivalDelay)
  IN  [effectiveArrivalSeconds |->
         IF hasDelay THEN sum
         ELSE IF hasTime THEN getSecondsOfDay(Val(Val(prediction).arrivalTime))
         ELSE scheduledArrivalSeconds,
       predictedArrivalTime |->
         IF hasDelay
         THEN Some(<< JsRem(sum \div 3600, 24), JsRem(sum, 3600) \div 60, JsRem(sum, 60) >>)
         ELSE IF hasTime THEN Some(unixToTimeString(Val(Val(prediction).arrivalTime)))
         ELSE None,
       arrivalDelay |-> IF hasDelay THEN Val(prediction).arrivalDelay ELSE None,
       isRealTime |-> hasTime \/ hasDelay]

(* an estimate that would count any cached prediction, departure data
   included, as real time *)
StopEstimateAnyPrediction(prediction, scheduledArrivalSeconds) ==
  [StopEstimateDelayFirst(prediction, scheduledArrivalSeconds) EXCEPT
     !.effectiveArrivalSeconds =
        StopEstimateOnSchedule(prediction, scheduledArrivalSeconds).effectiveArrivalSeconds,
     !.predictedArrivalTime =
        StopEstimateOnSchedule(prediction, scheduledArrivalSeconds).predictedArrivalTime,
     !.isRealTime = ~IsNull(prediction)]

(* lines 99-126: the effective arrival time of one stop-time entry whose
   scheduled arrival is known, and what is reported with it *)
StopEstimate(prediction, scheduledArrivalSeconds) ==
  LET hasTime == ~IsNull(prediction) /\ ~IsNull(Val(prediction).arrivalTime)
      hasDelay == ~IsNull(prediction) /\ ~IsNull(Val(prediction).arrivalDelay)
      sum == scheduledArrivalSeconds + Val(Val(prediction).arrivalDelay)
  IN  [effectiveArrivalSeconds |->
         IF hasTime THEN getSecondsOfDay(Val(Val(prediction).arrivalTime))
         ELSE IF hasDelay THEN sum
         ELSE scheduledArrivalSeconds,
       predictedArrivalTime |->
         IF hasTime THEN Some(unixToTimeString(Val(Val(prediction).arrivalTime)))
         ELSE IF hasDelay
         THEN Some(<< JsRem(sum \div 3600, 24), JsRem(sum, 3600) \div 60, JsRem(sum, 60) >>)
         ELSE None,
       arrivalDelay |-> IF hasDelay THEN Val(prediction).arrivalDelay ELSE None,
       isRealTime |-> hasTime \/ hasDelay]

(* a window test without the 60-second back-window *)
InWindowFromNow(effectiveArrivalSeconds, currentSeconds, windowEndSeconds) ==
  effectiveArrivalSeconds >= currentSeconds
  /\ effectiveArrivalSeconds <= windowEndSeconds

(* a window test without the upper end *)
InWindowOpenEnded(effectiveArrivalSeconds, currentSeconds, windowEndSeconds) ==
  effectiveArrivalSeconds >= currentSeconds - 60

(* line 130: the window test *)
InWindow(effectiveArrivalSeconds, currentSeconds, windowEndSeconds) ==
  effectiveArrivalSeconds >= currentSeconds - 60
  /\ effectiveArrivalSeconds <= windowEndSeconds

(* lines 131-145: the record pushed for an included entry *)
UpcomingStop(st, stop, est) ==
  [stopId |-> st.stopId, name |-> stop.name, lat |-> stop.lat, lon |-> stop.lon,
   arrivalTime |-> st.arrivalTime, departureTime |-> st.departureTime,
   stopSequence |-> st.stopSequence,
   predictedArrivalTime |-> est.predictedArrivalTime,
   arrivalDelay |-> est.arrivalDelay, isRealTime |-> est.isRealTime]

(* lines 90-147: what one entry of the loop adds to upcomingStops *)
(* a lookup by the stop of the entry: the first cached update of the trip
   that names the stop *)
PredictionByStopId(tripId, stopId) ==
  IF tripId \in DOMAIN tripUpdatesCache
     /\ \E q \in DOMAIN tripUpdatesCache[tripId] : tripUpdatesCache[tripId][q].stopId = stopId
  THEN LET first == CHOOSE q \in DOMAIN tripUpdatesCache[tripId] :
                      /\ tripUpdatesCache[tripId][q].stopId = stopId
                      /\ \A r \in DOMAIN tripUpdatesCache[tripId] :
                           tripUpdatesCache[tripId][r].stopId = stopId => q <= r
       IN  Some(tripUpdatesCache[tripId][first])
  ELSE None

StopContributionByStopId(tripId, st, currentSeconds, windowEndSeconds) ==
  IF IsNull(st.arrivalSeconds) THEN << >>
  ELSE LET est == StopEstimate(PredictionByStopId(tripId, st.stopId),
                               Val(st.arrivalSeconds))
           stop == getStop(st.stopId)
       IN  IF InWindow(est.effectiveArrivalSeconds, currentSeconds, windowEndSeconds)
              /\ ~IsNull(stop)
           THEN << UpcomingStop(st, Val(stop), est) >>
           ELSE << >>

(* one iteration of the loop over tripStopTimes (lines 90-147) *)
StopContribution(tripId, st, currentSeconds, windowEndSeconds) ==
  IF IsNull(st.arrivalSeconds) THEN << >>
  ELSE LET est == StopEstimate(getStopPrediction(tripId, st.stopSequence),
                               Val(st.arrivalSeconds))
           stop == getStop(st.stopId)
       IN  IF InWindow(est.effectiveArrivalSeconds, currentSeconds, windowEndSeconds)
              /\ ~IsNull(stop)
           THEN << UpcomingStop(st, Val(stop), est) >>
           ELSE << >>

RECURSIVE CollectUpcoming(_, _, _, _, _)
CollectUpcoming(tripId, tripStopTimes, i, currentSeconds, windowEndSeconds) ==
  IF i > Len(tripStopTimes) THEN << >>
  ELSE StopContribution(tripId, tripStopTimes[i], currentSeconds, windowEndSeconds)
       \o CollectUpcoming(tripId, tripStopTimes, i + 1, currentSeconds, windowEndSeconds)

(* a geometry that would always run to the last point of the shape *)
RouteGeometryToShapeEnd(trip, upcomingStops, currentLat, currentLon) ==
  IF trip.shapeId = "" THEN None
  ELSE LET shape == getShape(trip.shapeId)
       IN  IF IsNull(shape) \/ Len(Val(shape)) = 0 THEN None
           ELSE LET shapePoints == Val(shape)
                    currentShapeIdx == findClosestShapePoint(shapePoints, currentLat, currentLon)
                    segmentPoints == SubSeq(shapePoints, currentShapeIdx + 1, Len(shapePoints))
                IN  IF Len(segmentPoints) >= 2
                    THEN Some([type |-> "LineString",
                               coordinates |->
                                 [k \in 1..Len(segmentPoints) |->
                                    << segmentPoints[k].lon, segmentPoints[k].lat >>]])
                    ELSE None

(* lines 150-184: the forward geometry *)
(* a geometry that would be drawn only towards an upcoming stop *)
RouteGeometryOnlyWithStops(trip, upcomingStops, currentLat, currentLon) ==
  IF trip.shapeId = "" \/ Len(upcomingStops) = 0 THEN None
  ELSE LET shape == getShape(trip.shapeId)
       IN  IF IsNull(shape) \/ Len(Val(shape)) = 0 THEN None
           ELSE LET shapePoints == Val(shape)
                    currentShapeIdx == findClosestShapePoint(shapePoints, currentLat, currentLon)
                    lastStop == upcomingStops[Len(upcomingStops)]
                    endShapeIdx == findClosestShapePoint(shapePoints, lastStop.lat, lastStop.lon)
                    segmentPoints == SubSeq(shapePoints, currentShapeIdx + 1, endShapeIdx + 1)
                IN  IF currentShapeIdx <= endShapeIdx /\ Len(segmentPoints) >= 2
                    THEN Some([type |-> "LineString",
                               coordinates |->
                                 [k \in 1..Len(segmentPoints) |->
                                    << segmentPoints[k].lon, segmentPoints[k].lat >>]])
                    ELSE None

RouteGeometry(trip, upcomingStops, currentLat, currentLon) ==
  IF trip.shapeId = "" THEN None
  ELSE LET shape == getShape(trip.shapeId)
       IN  IF IsNull(shape) \/ Len(Val(shape)) = 0 THEN None
           ELSE LET shapePoints == Val(shape)
                    currentShapeIdx == findClosestShapePoint(shapePoints, currentLat, currentLon)
                    endShapeIdx ==
                      IF Len(upcomingStops) > 0
                      THEN LET lastStop == upcomingStops[Len(upcomingStops)]
                           IN  findClosestShapePoint(shapePoints, lastStop.lat, lastStop.lon)
                      ELSE Len(shapePoints) - 1
                    \* slice(currentShapeIdx, endShapeIdx + 1), 0-based
                    segmentPoints == SubSeq(shapePoints, currentShapeIdx + 1, endShapeIdx + 1)
                IN  IF currentShapeIdx <= endShapeIdx /\ Len(segmentPoints) >= 2
                    THEN Some([type |-> "LineString",
                               coordinates |->
                                 [k \in 1..Len(segmentPoints) |->
                                    << segmentPoints[k].lon, segmentPoints[k].lat >>]])
                    ELSE None

(* the early returns without the calendar check *)
NoPredictionIgnoringCalendar(tripId, currentTime) ==
  LET trip == getTrip(tripId)
      tripStopTimes == getStopTimes(tripId)
  IN  \/ IsNull(trip)
      \/ IsNull(tripStopTimes)
      \/ Len(Val(tripStopTimes)) = 0

(* lines 69-83: the three early returns *)
NoPrediction(tripId, currentTime) ==
  LET trip == getTrip(tripId)
      tripStopTimes == getStopTimes(tripId)
  IN  \/ IsNull(trip)
      \/ ~isServiceActiveOnDate(Val(trip).serviceId, currentTime)
      \/ IsNull(tripStopTimes)
      \/ Len(Val(tripStopTimes)) = 0

getUpcomingRoute(tripId, currentLat, currentLon, currentTime) ==
  IF NoPrediction(tripId, currentTime) THEN None
  ELSE LET trip == Val(getTrip(tripId))
           currentSeconds == getSecondsOfDay(currentTime)
           windowEndSeconds == currentSeconds + PREDICTION_WINDOW_MINUTES * 60
           upcomingStops == CollectUpcoming(tripId, Val(getStopTimes(tripId)), 1,
                                            currentSeconds, windowEndSeconds)
       IN  Some([tripId |-> tripId, routeId |-> trip.routeId,
                 headsign |-> trip.tripHeadsign, directionId |-> trip.directionId,
                 upcomingStops |-> upcomingStops,
                 routeGeometry |-> RouteGeometry(trip, upcomingStops, currentLat, currentLon)])

(* buildRoutesGeoJSON (lines 203-261): the features of one bus *)
BusRouteFeatures(bus, currentTime) ==
  IF bus.tripId = "" \/ IsNull(bus.latitude) \/ IsNull(bus.longitude) THEN << >>
  ELSE LET route == getUpcomingRoute(bus.tripId, Val(bus.latitude), Val(bus.longitude),
                                     currentTime)
       IN  IF IsNull(route) THEN << >>
           ELSE (IF ~IsNull(Val(route).routeGeometry)
                 THEN << [type |-> "Feature",
                          properties |-> [type |-> "route", busId |-> bus.busId,
                                          color |-> bus.color, tripId |-> Val(route).tripId,
                                          routeId |-> Val(route).routeId,
                                          headsign |-> Val(route).headsign],
                          geometry |-> Val(Val(route).routeGeometry)] >>
                 ELSE << >>)
                \o [k \in 1..Len(Val(route).upcomingStops) |->
                      LET stop == Val(route).upcomingStops[k]
                      IN  [type |-> "Feature",
                           properties |-> [type |-> "stop", busId |-> bus.busId,
                                           color |-> bus.color, stopId |-> stop.stopId,
                                           name |-> stop.name,
                                           arrivalTime |-> stop.arrivalTime,
                                           departureTime |-> stop.departureTime,
                                           predictedArrivalTime |-> stop.predictedArrivalTime,
                                           arrivalDelay |-> stop.arrivalDelay,
                                           isRealTime |-> stop.isRealTime,
                                           stopSequence |-> stop.stopSequence],
                           geometry |-> [type |-> "Point",
                                         coordinates |-> << stop.lon, stop.lat >>]]]

(* a loop that would stop at the first bus it has nothing to draw for *)
RECURSIVE RouteFeaturesUntilSkipped(_, _, _)
RouteFeaturesUntilSkipped(buses, i, currentTime) ==
  IF i > Len(buses) THEN << >>
  ELSE IF BusRouteFeatures(buses[i], currentTime) = << >> THEN << >>
  ELSE BusRouteFeatures(buses[i], currentTime)
       \o RouteFeaturesUntilSkipped(buses, i + 1, currentTime)

(* the loop over the buses (lines 206-255) *)
RECURSIVE RouteFeaturesFrom(_, _, _)
RouteFeaturesFrom(buses, i, currentTime) ==
  IF i > Len(buses) THEN << >>
  ELSE BusRouteFeatures(buses[i], currentTime) \o RouteFeaturesFrom(buses, i + 1, currentTime)

buildRoutesGeoJSON(buses, currentTime) ==
  [type |-> "FeatureCollection", features |-> RouteFeaturesFrom(buses, 1, currentTime)]

----------------------------------------------------------------------------
(* bus-positions.js *)

TEST_BUS_COUNT == 6
TEST_TROLLEY_COUNT == 4

HolidayBus(district, headsign, color) ==
  [district |-> district, headsign |-> headsign, color |-> color]

HOLIDAY_BUS_LIST ==
  << "3090", "3069", "3019", "3817", "3364", "3160", "9034", "9087", "9053", "9009" >>

HOLIDAY_BUSES ==
  [id \in Range(HOLIDAY_BUS_LIST) |->
     CASE id = "3090" -> HolidayBus("Southern", "Beetlejuice", "#e53935")
       [] id = "3069" -> HolidayBus("Victory", "The Best Gift Ever", "#43a047")
       [] id = "3019" -> HolidayBus("Callowhill", "Santa Paws", "#1e88e5")
       [] id = "3817" -> HolidayBus("Midvale", "National Lampoon's Christmas Vacation", "#fdd835")
       [] id = "3364" -> HolidayBus("Comly", "Christmas in Wonderland", "#8e24aa")
       [] id = "3160" -> HolidayBus("Frankford", "Care Bear Party Bus", "#00897b")
       [] id = "9034" -> HolidayBus("Elmwood", "Home Alone", "#f4511e")
       [] id = "9087" -> HolidayBus("Elmwood", "Holiday", "#c2185b")
       [] id = "9053" -> HolidayBus("Callowhill", "Frosty the Snow Mobile", "#78909c")
       [] id = "9009" -> HolidayBus("Woodland", "Star Wars", "#7cb342")]

HOLIDAY_BUS_IDS == DOMAIN HOLIDAY_BUSES

HOLIDAY_COLORS ==
  [k \in 1..Len(HOLIDAY_BUS_LIST) |-> HOLIDAY_BUSES[HOLIDAY_BUS_LIST[k]].color]

(* vehicle ids are strings; startsWith('9') is  the trolley convention *)
IsTrolleyId(vehicleId) ==
  vehicleId \in {"9034", "9087", "9053", "9009",
                 "9100", "9101", "9102", "9103", "9104"}

(* Array.prototype.indexOf, 0-based, -1 when absent *)
RECURSIVE IndexFrom(_, _, _)
IndexFrom(list, x, i) ==
  IF i > Len(list) THEN -1
  ELSE IF list[i] = x THEN i - 1 ELSE IndexFrom(list, x, i + 1)

getBusColor(busId, mode) ==
  IF mode = "test"
  THEN LET index == IndexFrom(testBusIdList, busId, 1)
       IN  IF index >= 0 THEN Some(HOLIDAY_COLORS[(index % Len(HOLIDAY_COLORS)) + 1])
           ELSE None
  ELSE IF busId \in HOLIDAY_BUS_IDS THEN Some(HOLIDAY_BUSES[busId].color)
       ELSE Some(HOLIDAY_COLORS[1])

(* a decoded FeedEntity of the position feed, reduced to what is read *)
VehicleEntity(vehicleId, position, tripId) ==
  [vehicleId |-> vehicleId, position |-> position, tripId |-> tripId, routeId |-> "1"]

LatLon(lat, lon) == Some([latitude |-> lat, longitude |-> lon, bearing |-> 90])

(* lines 189-203: basePosition (the fields the features do not use are left out) *)
BasePosition(entity) ==
  [busId |-> entity.vehicleId,
   latitude |-> IF IsNull(entity.position) THEN None
                ELSE Some(Val(entity.position).latitude),
   longitude |-> IF IsNull(entity.position) THEN None
                 ELSE Some(Val(entity.position).longitude),
   bearing |-> IF IsNull(entity.position) THEN None
               ELSE Some(Val(entity.position).bearing),
   tripId |-> entity.tripId,
   routeId |-> entity.routeId]

WithColor(pos, color) ==
  [busId |-> pos.busId, latitude |-> pos.latitude, longitude |-> pos.longitude,
   bearing |-> pos.bearing, tripId |-> pos.tripId, routeId |-> pos.routeId,
   color |-> color]

(* lines 183-219: the positions of one group, in feed order *)
RECURSIVE GroupPositions(_, _, _)
GroupPositions(entities, i, mode) ==
  IF i > Len(entities) THEN << >>
  ELSE LET e == entities[i]
           member == IF mode = "holiday" THEN e.vehicleId \in HOLIDAY_BUS_IDS
                     ELSE e.vehicleId \in testBusIds
       IN  (IF e.vehicleId # "" /\ member
            THEN << WithColor(BasePosition(e), getBusColor(e.vehicleId, mode)) >>
            ELSE << >>)
           \o GroupPositions(entities, i + 1, mode)

(* JavaScript truthiness of a nullable number *)
Truthy(n) == ~IsNull(n) /\ Val(n) # 0

(* positionsToGeoJSON (lines 125-150) *)
BusFeature(bus, mode) ==
  [type |-> "Feature",
   geometry |-> [type |-> "Point",
                 coordinates |-> << Val(bus.longitude), Val(bus.latitude) >>],
   properties |->
     [busId |-> bus.busId, routeId |-> bus.routeId, color |-> bus.color,
      bearing |-> bus.bearing,
      district |-> IF mode = "holiday" /\ bus.busId \in HOLIDAY_BUS_IDS
                   THEN Some(HOLIDAY_BUSES[bus.busId].district) ELSE None,
      headsign |-> IF mode = "holiday" /\ bus.busId \in HOLIDAY_BUS_IDS
                   THEN Some(HOLIDAY_BUSES[bus.busId].headsign) ELSE None,
      vehicleType |-> IF IsTrolleyId(bus.busId) THEN "trolley" ELSE "bus"]]

RECURSIVE BusFeaturesFrom(_, _, _)
BusFeaturesFrom(positions, i, mode) ==
  IF i > Len(positions) THEN << >>
  ELSE (IF Truthy(positions[i].latitude) /\ Truthy(positions[i].longitude)
        THEN << BusFeature(positions[i], mode) >> ELSE << >>)
       \o BusFeaturesFrom(positions, i + 1, mode)

positionsToGeoJSON(positions, mode) ==
  [type |-> "FeatureCollection", features |-> BusFeaturesFrom(positions, 1, mode)]

EmptyCollection == [type |-> "FeatureCollection", features |-> << >>, cycle |-> 0]

(* `cycle` names the execution of fetchVehiclePositions that built a
   collection (0: the initial, empty one); the program does not read it *)
BuiltBy(collection, c) ==
  [type |-> collection.type, features |-> collection.features, cycle |-> c]

(* lines 153-162 *)
InitialData ==
  [holiday |-> [buses |-> EmptyCollection, routes |-> EmptyCollection],
   test |-> [buses |-> EmptyCollection, routes |-> EmptyCollection]]

(* a publication that replaces the vehicle collections and leaves the route
   collections for a later step *)
VehiclesOnlyData(c, entities, now) ==
  [holiday |->
     [buses |-> BuiltBy(positionsToGeoJSON(GroupPositions(entities, 1, "holiday"),
                                           "holiday"), c),
      routes |-> currentData.holiday.routes],
   test |->
     [buses |-> BuiltBy(positionsToGeoJSON(GroupPositions(entities, 1, "test"), "test"), c),
      routes |-> currentData.test.routes]]

(* lines 180-235: the value execution c assigns to currentData *)
ReconciledData(c, entities, now) ==
  LET holidayPositions == GroupPositions(entities, 1, "holiday")
      testPositions == GroupPositions(entities, 1, "test")
  IN  [holiday |->
         [buses |-> BuiltBy(positionsToGeoJSON(holidayPositions, "holiday"), c),
          routes |-> BuiltBy(buildRoutesGeoJSON(holidayPositions, now), c)],
       test |->
         [buses |-> BuiltBy(positionsToGeoJSON(testPositions, "test"), c),
          routes |-> BuiltBy(buildRoutesGeoJSON(testPositions, now), c)]]

(* a catch block that would fall back to the empty collections *)
DataClearedOnFailure(data) == InitialData

(* lines 240-242: the catch block only logs *)
DataAfterFailure(data) == data

(* the value of an expression that found nothing to return *)
Undefined == [type |-> "undefined"]

(* a reader without the `|| { ... }` fallback *)
getBusesWithoutFallback(mode) ==
  IF mode \in DOMAIN currentData THEN currentData[mode].buses ELSE Undefined

(* getBuses / getRoutes (lines 245-251) *)
getBuses(mode) ==
  IF mode \in DOMAIN currentData THEN currentData[mode].buses ELSE EmptyCollection

getRoutes(mode) ==
  IF mode \in DOMAIN currentData THEN currentData[mode].routes ELSE EmptyCollection

(* map-data.js: the handler reads both collections without suspending *)
MapDataReply(mode) == [mode |-> mode, buses |-> getBuses(mode), routes |-> getRoutes(mode)]

(* a scan that would not skip the holiday buses *)
RECURSIVE CandidatesWithHolidayBuses(_, _, _, _)
CandidatesWithHolidayBuses(entities, i, now, trolleys) ==
  IF i > Len(entities) THEN << >>
  ELSE LET e == entities[i]
           usable == /\ e.vehicleId # ""
                     /\ ~IsNull(e.position)
                     /\ Val(e.position).latitude # 0
                     /\ Val(e.position).longitude # 0
                     /\ e.tripId # ""
           route == getUpcomingRoute(e.tripId, Val(e.position).latitude,
                                     Val(e.position).longitude, now)
       IN  (IF usable /\ ~IsNull(route) /\ Len(Val(route).upcomingStops) > 0
               /\ IsTrolleyId(e.vehicleId) = trolleys
            THEN << e.vehicleId >> ELSE << >>)
           \o CandidatesWithHolidayBuses(entities, i + 1, now, trolleys)

(* selectRandomTestBuses, lines 70-97: the candidates of one pool, in feed order *)
RECURSIVE Candidates(_, _, _, _)
Candidates(entities, i, now, trolleys) ==
  IF i > Len(entities) THEN << >>
  ELSE LET e == entities[i]
           usable == /\ e.vehicleId # ""
                     /\ e.vehicleId \notin HOLIDAY_BUS_IDS
                     /\ ~IsNull(e.position)
                     /\ Val(e.position).latitude # 0
                     /\ Val(e.position).longitude # 0
                     /\ e.tripId # ""
           route == getUpcomingRoute(e.tripId, Val(e.position).latitude,
                                     Val(e.position).longitude, now)
       IN  (IF usable /\ ~IsNull(route) /\ Len(Val(route).upcomingStops) > 0
               /\ IsTrolleyId(e.vehicleId) = trolleys
            THEN << e.vehicleId >> ELSE << >>)
           \o Candidates(entities, i + 1, now, trolleys)

Min(a, b) == IF a < b THEN a ELSE b

(* a slice that would keep one candidate more than asked for *)
PicksOneMore(candidates, count) ==
  LET n == Min(Len(candidates), count + 1)
  IN  { [i \in 1..n |-> candidates[p[i]]] :
          p \in {q \in [1..n -> 1..Len(candidates)] :
                   \A i, j \in 1..n : q[i] = q[j] => i = j} }

(* lines 99-112: shuffle, then slice(0, count): the candidates at any `count`
   distinct places of the list, in any order (all of them when there are
   fewer) *)
Picks(candidates, count) ==
  LET n == Min(Len(candidates), count)
  IN  { [i \in 1..n |-> candidates[p[i]]] :
          p \in {q \in [1..n -> 1..Len(candidates)] :
                   \A i, j \in 1..n : q[i] = q[j] => i = j} }

(* lines 108-116: the lists selectRandomTestBuses can assign to testBusIdList *)
Selections(entities, now) ==
  { selectedBuses \o selectedTrolleys :
      selectedBuses \in Picks(Candidates(entities, 1, now, FALSE), TEST_BUS_COUNT),
      selectedTrolleys \in Picks(Candidates(entities, 1, now, TRUE), TEST_TROLLEY_COUNT) }

----------------------------------------------------------------------------
(* The feeds the environment can serve *)

TimeOnly(t) == Some([time |-> Some(t), delay |-> None])
DelayOnly(d) == Some([time |-> None, delay |-> Some(d)])
TimeAndDelay(t, d) == Some([time |-> Some(t), delay |-> Some(d)])

StopTimeUpdate(seq, stopId, arrival, departure) ==
  [stopSequence |-> seq, stopId |-> stopId, arrival |-> arrival, departure |-> departure]

TripUpdateEntity(tripId, stus) == [tripId |-> tripId, stopTimeUpdate |-> stus]

\* the trip-update feeds of the polling model: stop 2 of T1 is 120 s late, or
\* 300 s late
TripUpdateFeeds ==
  { << TripUpdateEntity("T1", << StopTimeUpdate(Some(2), "B", DelayOnly(d), None) >>) >> :
      d \in {120, 300} }

\* position feeds of the polling model
PositionFeeds ==
  { << VehicleEntity("3090", LatLon(2, 7), "T1"),
       VehicleEntity("5000", LatLon(1, 7), "T1"),
       VehicleEntity("3069", LatLon(0, 7), "T1"),
       VehicleEntity("7000", LatLon(2, 7), "T2"),
       VehicleEntity("9100", LatLon(3, 7), "T1") >> }

\* the instants at which the polling model reads the clock (Monday 08:05:00)
PollInstants == { At(0, 8, 5, 0) }

----------------------------------------------------------------------------
(* start(), startPolling() and the executions they start.                   *)
(*                                                                          *)
(* cycles[1] is selectRandomTestBuses, cycles[2] the awaited first          *)
(* fetchVehiclePositions, the later ones are started by the timer.  Each    *)
(* action is one turn of the event loop: the callback of one I/O event or   *)
(* timer, with the promise continuations it sets off.                       *)

\* timer ticks modelled after setInterval
MaxTicks == 2

NewExecution(kind) == [kind |-> kind, phase |-> "awaiting", pos |-> "pending", tu |-> "pending"]

Alive == startPc # "exited"
Executions == 1..Len(cycles)
Finished(c) == cycles[c].phase \in {"done", "failed"}
InFlight(c) == cycles[c].phase \in {"awaiting", "reading"}

Init ==
  /\ loaded = FALSE
  /\ tripUpdatesCache = EmptyMap
  /\ testBusIds = {} /\ testBusIdList = << >>
  /\ currentData = InitialData
  /\ startPc = "load"
  /\ cycles = << >>
  /\ feedsUp = TRUE
  /\ lastCall = None

(* process.exit(1): nothing of the process is left *)
Exit ==
  /\ loaded' = FALSE
  /\ tripUpdatesCache' = EmptyMap
  /\ testBusIds' = {} /\ testBusIdList' = << >>
  /\ currentData' = InitialData
  /\ startPc' = "exited"
  /\ cycles' = << >>
  /\ UNCHANGED <<feedsUp, lastCall>>

(* loadGtfsData resolves; start() goes on to startPolling(), which calls
   selectRandomTestBuses(): both fetches are issued *)
LoadOk ==
  /\ startPc = "load"
  /\ loaded' = TRUE
  /\ startPc' = "select"
  /\ cycles' = << NewExecution("select") >>
  /\ UNCHANGED <<tripUpdatesCache, testBusIds, testBusIdList, currentData,
                 feedsUp, lastCall>>

(* a start() that would log the failed load and go on to startPolling() *)
LoadFailIgnored ==
  /\ startPc = "load"
  /\ startPc' = "select"
  /\ cycles' = << NewExecution("select") >>
  /\ UNCHANGED <<loaded, tripUpdatesCache, testBusIds, testBusIdList, currentData,
                 feedsUp, lastCall>>

(* a file is missing or does not parse: process.exit(1) *)
LoadFail ==
  /\ startPc = "load"
  /\ Exit

(* fastify.listen resolves *)
ListenOk ==
  /\ startPc = "listen"
  /\ startPc' = "serving"
  /\ UNCHANGED <<loaded, tripUpdatesCache, testBusIds, testBusIdList, currentData,
                 cycles, feedsUp, lastCall>>

(* fastify.listen rejects: process.exit(1) *)
ListenFail ==
  /\ startPc = "listen"
  /\ Exit

(* a timer that would run the startup selection again *)
TickReselecting ==
  /\ startPc \in {"listen", "serving"}
  /\ Len(cycles) < 2 + MaxTicks
  /\ cycles' = Append(cycles, NewExecution("select"))
  /\ UNCHANGED <<loaded, tripUpdatesCache, testBusIds, testBusIdList, currentData,
                 startPc, feedsUp, lastCall>>

(* a tick of setInterval(fetchVehiclePositions, POLL_INTERVAL_MS): it starts
   an execution whatever the state of the earlier ones *)
Tick ==
  /\ startPc \in {"listen", "serving"}
  /\ Len(cycles) < 2 + MaxTicks
  /\ cycles' = Append(cycles, NewExecution("poll"))
  /\ UNCHANGED <<loaded, tripUpdatesCache, testBusIds, testBusIdList, currentData,
                 startPc, feedsUp, lastCall>>

(* the feeds stop answering (a response that is never completed): fetch() is
   given no signal and no timeout in the source, so every fetch and body
   read still pending stays pending *)
FeedsStopAnswering ==
  /\ Alive /\ feedsUp
  /\ feedsUp' = FALSE
  /\ UNCHANGED <<loaded, tripUpdatesCache, testBusIds, testBusIdList, currentData,
                 startPc, cycles, lastCall>>

(* an ended execution keeps no more than how it ended and whether its
   fetchTripUpdates call is still running *)
Ended(kind, phase, tu) ==
  [kind |-> kind, phase |-> phase, pos |-> "-",
   tu |-> IF tu = "pending" THEN "pending" ELSE "-"]

(* a join that would end the execution when its trip-update refresh failed *)
SettledOrRefreshFailed(c, pos, tu) ==
  IF cycles[c].phase # "awaiting" THEN Ended(cycles[c].kind, cycles[c].phase, tu)
  ELSE IF tu = "failed" THEN Ended(cycles[c].kind, "failed", tu)
  ELSE IF pos \in {"ok", "bad"} /\ tu \in {"ok", "failed"}
  THEN (IF pos = "bad" THEN Ended(cycles[c].kind, "failed", tu)
        ELSE [kind |-> cycles[c].kind, phase |-> "reading", pos |-> pos, tu |-> tu])
  ELSE [kind |-> cycles[c].kind, phase |-> "awaiting", pos |-> pos, tu |-> tu]

(* a join that would go on to read the positions as soon as their response
   is there, whatever the trip-update refresh is doing *)
SettledOnPositionAlone(c, pos, tu) ==
  IF cycles[c].phase # "awaiting" THEN Ended(cycles[c].kind, cycles[c].phase, tu)
  ELSE IF pos = "bad" /\ tu \in {"ok", "failed"} THEN Ended(cycles[c].kind, "failed", tu)
  ELSE IF pos = "ok"
  THEN [kind |-> cycles[c].kind, phase |-> "reading", pos |-> pos, tu |-> tu]
  ELSE [kind |-> cycles[c].kind, phase |-> "awaiting", pos |-> pos, tu |-> tu]

(* execution c after one of its two fetches settled: Promise.all resolves
   once both have, and then a response that is not OK throws (lines 171-173)
   and an OK one is read (line 175) *)
Settled(c, pos, tu) ==
  IF cycles[c].phase # "awaiting" THEN Ended(cycles[c].kind, cycles[c].phase, tu)
  ELSE IF pos \in {"ok", "bad"} /\ tu \in {"ok", "failed"}
  THEN (IF pos = "bad" THEN Ended(cycles[c].kind, "failed", tu)
        ELSE [kind |-> cycles[c].kind, phase |-> "reading", pos |-> pos, tu |-> tu])
  ELSE [kind |-> cycles[c].kind, phase |-> "awaiting", pos |-> pos, tu |-> tu]

(* a startPolling that would give up when its first fetchVehiclePositions
   failed, and never arm the timer *)
AfterEndStoppingOnFailure(c, executions) ==
  IF ~(executions[c].phase \in {"done", "failed"}) THEN <<startPc, executions>>
  ELSE IF c = 1 THEN <<"first", Append(executions, NewExecution("poll"))>>
  ELSE IF c = 2 THEN <<IF executions[c].phase = "failed" THEN "stopped" ELSE "listen",
                       executions>>
  ELSE <<startPc, executions>>

(* startPolling lines 255-257 and start(): the awaits on the first two
   executions; what follows the end of execution c *)
AfterEnd(c, executions) ==
  IF ~(executions[c].phase \in {"done", "failed"}) THEN <<startPc, executions>>
  ELSE IF c = 1 THEN <<"first", Append(executions, NewExecution("poll"))>>
  ELSE IF c = 2 THEN <<"listen", executions>>
  ELSE <<startPc, executions>>

(* the awaits resume once, when the execution ends; a fetchTripUpdates call
   that outlives its execution resumes nothing *)
Advance(c, execution) ==
  LET after == IF InFlight(c) THEN AfterEnd(c, [cycles EXCEPT ![c] = execution])
               ELSE <<startPc, [cycles EXCEPT ![c] = execution]>>
  IN  startPc' = after[1] /\ cycles' = after[2]

(* fetchTripUpdates of execution c fetched and decoded `feed` (lines 15-55) *)
TripUpdatesSuccess(c, feed) ==
  /\ Alive /\ feedsUp /\ cycles[c].tu = "pending"
  /\ tripUpdatesCache' = CacheAfterSuccess(tripUpdatesCache, feed)
  /\ Advance(c, Settled(c, cycles[c].pos, "ok"))
  /\ currentData' = IF InFlight(c) /\ cycles[c].pos = "bad"
                    THEN DataAfterFailure(currentData) ELSE currentData
  /\ UNCHANGED <<loaded, testBusIds, testBusIdList, feedsUp, lastCall>>

(* fetchTripUpdates of execution c threw: the fetch rejected, the status was
   not OK, or the body did not read or decode (lines 56-59) *)
TripUpdatesFailure(c) ==
  /\ Alive /\ feedsUp /\ cycles[c].tu = "pending"
  /\ tripUpdatesCache' = CacheAfterFailure(tripUpdatesCache)
  /\ Advance(c, Settled(c, cycles[c].pos, "failed"))
  /\ currentData' = IF InFlight(c) /\ cycles[c].pos = "bad"
                    THEN DataAfterFailure(currentData) ELSE currentData
  /\ UNCHANGED <<loaded, testBusIds, testBusIdList, feedsUp, lastCall>>

(* the position fetch resolves with a response, OK or not *)
PositionResponse(c, ok) ==
  /\ Alive /\ feedsUp /\ cycles[c].phase = "awaiting" /\ cycles[c].pos = "pending"
  /\ Advance(c, Settled(c, IF ok THEN "ok" ELSE "bad", cycles[c].tu))
  /\ currentData' = IF ~ok /\ cycles[c].tu # "pending"
                    THEN DataAfterFailure(currentData) ELSE currentData
  /\ UNCHANGED <<loaded, tripUpdatesCache, testBusIds, testBusIdList,
                 feedsUp, lastCall>>

(* the position fetch rejects: Promise.all rejects at once and the catch
   block ends the execution, whatever the trip-update refresh is doing *)
PositionReject(c) ==
  /\ Alive /\ feedsUp /\ cycles[c].phase = "awaiting" /\ cycles[c].pos = "pending"
  /\ Advance(c, Ended(cycles[c].kind, "failed", cycles[c].tu))
  /\ currentData' = DataAfterFailure(currentData)
  /\ UNCHANGED <<loaded, tripUpdatesCache, testBusIds, testBusIdList,
                 feedsUp, lastCall>>

(* reading the position body rejects, or decoding it throws *)
DecodeFailure(c) ==
  /\ Alive /\ feedsUp /\ cycles[c].phase = "reading"
  /\ Advance(c, Ended(cycles[c].kind, "failed", cycles[c].tu))
  /\ currentData' = DataAfterFailure(currentData)
  /\ UNCHANGED <<loaded, tripUpdatesCache, testBusIds, testBusIdList,
                 feedsUp, lastCall>>

(* a reconciliation that would yield to the event loop between the
   predictions of the two groups, so that a refresh in flight in another
   execution replaces the cache in between *)
ReconcileAcrossRefresh(c, entities, now) ==
  /\ Alive /\ feedsUp /\ cycles[c].phase = "reading" /\ cycles[c].kind = "poll"
  /\ UNCHANGED <<loaded, testBusIds, testBusIdList, feedsUp, lastCall>>
  /\ \E feed \in TripUpdateFeeds :
       tripUpdatesCache' =
         IF \E d \in Executions : d # c /\ cycles[d].tu = "pending"
         THEN CacheAfterSuccess(tripUpdatesCache, feed) ELSE tripUpdatesCache
  /\ currentData' =
       [holiday |-> ReconciledData(c, entities, now).holiday,
        test |->
          [buses |-> ReconciledData(c, entities, now).test.buses,
           routes |-> BuiltBy(buildRoutesGeoJSON(GroupPositions(entities, 1, "test"),
                                                 now)', c)]]
  /\ Advance(c, Ended(cycles[c].kind, "done", cycles[c].tu))

(* fetchVehiclePositions lines 175-239: decode, partition, predict, publish *)
Reconcile(c, entities, now) ==
  /\ Alive /\ feedsUp /\ cycles[c].phase = "reading" /\ cycles[c].kind = "poll"
  /\ currentData' = ReconciledData(c, entities, now)
  /\ Advance(c, Ended(cycles[c].kind, "done", cycles[c].tu))
  /\ UNCHANGED <<loaded, tripUpdatesCache, testBusIds, testBusIdList,
                 feedsUp, lastCall>>

(* selectRandomTestBuses lines 60-118 *)
SelectTestBuses(c, entities, now) ==
  /\ Alive /\ feedsUp /\ cycles[c].phase = "reading" /\ cycles[c].kind = "select"
  /\ \E selectedBuses \in Picks(Candidates(entities, 1, now, FALSE), TEST_BUS_COUNT) :
       \E selectedTrolleys \in Picks(Candidates(entities, 1, now, TRUE), TEST_TROLLEY_COUNT) :
          /\ testBusIds' = Range(selectedBuses \o selectedTrolleys)
          /\ testBusIdList' = selectedBuses \o selectedTrolleys
  /\ Advance(c, Ended(cycles[c].kind, "done", cycles[c].tu))
  /\ UNCHANGED <<loaded, tripUpdatesCache, currentData, feedsUp, lastCall>>

Next ==
  \/ LoadOk
  \/ LoadFail
  \/ ListenOk
  \/ ListenFail
  \/ Tick
  \/ \E c \in Executions, feed \in TripUpdateFeeds : TripUpdatesSuccess(c, feed)
  \/ \E c \in Executions : TripUpdatesFailure(c)
  \/ \E c \in Executions, ok \in BOOLEAN : PositionResponse(c, ok)
  \/ \E c \in Executions : PositionReject(c)
  \/ \E c \in Executions : DecodeFailure(c)
  \/ \E c \in Executions, entities \in PositionFeeds, now \in PollInstants :
       Reconcile(c, entities, now)
  \/ \E c \in Executions, entities \in PositionFeeds, now \in PollInstants :
       SelectTestBuses(c, entities, now)

Spec == Init /\ [][Next]_vars

(* the same program with feeds that may stop answering for good.  The event
   loop runs every callback that is ready and a feed that is up answers, so
   the steps of Next are taken as long as one is possible *)
HangNext == Next \/ FeedsStopAnswering

HangSpec == Init /\ [][HangNext]_vars /\ WF_vars(Next)

----------------------------------------------------------------------------
(* The route predictor on its own: a loaded store, a cache built from one  *)
(* decoded trip-update feed, and one call of getUpcomingRoute               *)

Arrivals ==
  { None,
    DelayOnly(0), DelayOnly(120), DelayOnly(-900), DelayOnly(-60),
    TimeOnly(At(0, 8, 12, 0)), TimeOnly(At(0, 8, 50, 0)), TimeOnly(At(1, 0, 5, 0)),
    TimeAndDelay(At(0, 8, 12, 0), 3000) }

\* the feeds for T8 predict both calls at stop A, or the second one only
PredictorFeeds ==
  { << >> } \cup
  { << TripUpdateEntity(t, << StopTimeUpdate(Some(q), "B", a, DelayOnly(60)) >>) >> :
       t \in {"T1", "T4", "T5", "T7"}, q \in {1, 2, 3}, a \in Arrivals } \cup
  { << TripUpdateEntity("T8", << StopTimeUpdate(Some(1), "A", a, None),
                                 StopTimeUpdate(Some(3), "A", b, None) >>) >> :
       a, b \in {DelayOnly(120), DelayOnly(-60), TimeOnly(At(0, 8, 12, 0))} } \cup
  { << TripUpdateEntity("T8", << StopTimeUpdate(Some(3), "A", DelayOnly(300), None) >>) >> }

\* T9 is not a trip of the store
PredictorTrips == {"T1", "T2", "T3", "T4", "T5", "T6", "T7", "T8", "T9"}

\* Monday 2025-12-01 around the 08:00:00 and 08:45:00 stops and before
\* midnight, Tuesday just after midnight, Wednesday (a removed date), Sunday, and
\* a day after the calendars end
PredictorInstants ==
  { At(0, 8, 0, 30), At(0, 8, 1, 0), At(0, 8, 1, 1), At(0, 8, 5, 0),
    At(0, 8, 14, 59), At(0, 8, 15, 0),
    At(0, 23, 50, 0), At(1, 0, 0, 10), At(1, 0, 5, 0), At(2, 8, 5, 0), At(6, 8, 5, 0), At(40, 8, 5, 0) }

Call(tripId, currentLat, currentLon, currentTime) ==
  [tripId |-> tripId, currentLat |-> currentLat, currentLon |-> currentLon,
   currentTime |-> currentTime, returned |-> FALSE, result |-> None]

PredictorInit ==
  /\ loaded = TRUE
  /\ tripUpdatesCache \in {CacheAfterSuccess(EmptyMap, feed) : feed \in PredictorFeeds}
  /\ testBusIds = {} /\ testBusIdList = << >>
  /\ currentData = InitialData
  /\ startPc = "serving"
  /\ cycles = << >>
  /\ feedsUp = TRUE
  /\ lastCall \in { Some(Call(tripId, currentLat, 7, currentTime)) :
                      tripId \in PredictorTrips, currentLat \in {1, 4, 6},
                      currentTime \in PredictorInstants }

(* the call returns *)
Predict ==
  /\ ~IsNull(lastCall) /\ ~Val(lastCall).returned
  /\ lastCall' = Some([Val(lastCall) EXCEPT
                         !.returned = TRUE,
                         !.result = getUpcomingRoute(Val(lastCall).tripId,
                                                     Val(lastCall).currentLat,
                                                     Val(lastCall).currentLon,
                                                     Val(lastCall).currentTime)])
  /\ UNCHANGED <<loaded, tripUpdatesCache, testBusIds, testBusIdList, currentData,
                 startPc, cycles, feedsUp>>

PredictorNext == Predict

PredictorSpec == PredictorInit /\ [][PredictorNext]_vars

----------------------------------------------------------------------------
(* Properties of the polling program                                        *)

Modes == {"holiday", "test"}

PollsInFlight == {c \in Executions : cycles[c].kind = "poll" /\ InFlight(c)}

\* C1: whatever the polling cycles are doing, the map-data handler answers
\* with a vehicle collection and a route collection built by the same cycle
C1_SameCycleReply ==
  \A mode \in Modes : MapDataReply(mode).buses.cycle = MapDataReply(mode).routes.cycle

\* the server answers a snapshot published by a timer cycle while another
\* cycle is in flight
C1_Witness ==
  /\ startPc = "serving"
  /\ PollsInFlight # {}
  /\ MapDataReply("holiday").buses.cycle > 2
  /\ Len(MapDataReply("holiday").buses.features) > 0
  /\ Len(MapDataReply("holiday").routes.features) > 0

CachedKeys == {"T1", "T2", "T9"} \X {1, 2, 3}

\* C2: a refresh of the trip-update cache that fails leaves the result of
\* getStopPrediction unchanged for every (tripId, stopSequence)
C2_FailedRefreshKeepsPredictions ==
  [][\A c \in Executions :
       TripUpdatesFailure(c) =>
         \A key \in CachedKeys :
            getStopPrediction(key[1], key[2])' = getStopPrediction(key[1], key[2])]_vars

\* an execution whose refresh failed while the cache held predictions
C2_Witness ==
  /\ \E c \in Executions : cycles[c].tu = "failed"
  /\ ~IsNull(getStopPrediction("T1", 2))

(* the steps by which execution c fails on the position feed: the fetch
   rejects, the body does not read or decode, or the response awaited by
   Promise.all is not OK *)
PositionFailure(c) ==
  \/ PositionReject(c)
  \/ DecodeFailure(c)
  \/ PositionResponse(c, FALSE) /\ cycles[c].tu # "pending"
  \/ /\ cycles[c].phase = "awaiting" /\ cycles[c].pos = "bad"
     /\ (TripUpdatesFailure(c) \/ \E feed \in TripUpdateFeeds : TripUpdatesSuccess(c, feed))

\* C3: a cycle that fails on the position feed publishes nothing: the step
\* that ends it leaves getBuses and getRoutes of both groups as they were,
\* and the cycle has ended as failed
C3_FailedCyclePublishesNothing ==
  [][\A c \in Executions :
       cycles[c].kind = "poll" /\ PositionFailure(c) =>
         /\ \A mode \in Modes : getBuses(mode)' = getBuses(mode)
                                /\ getRoutes(mode)' = getRoutes(mode)
         /\ startPc' = "exited" \/ cycles'[c].phase = "failed"]_vars

\* the first timer cycle failed after the awaited first cycle had published
C3_Witness ==
  /\ Len(cycles) >= 3
  /\ cycles[3].phase = "failed"
  /\ getBuses("holiday").cycle = 2
  /\ Len(getBuses("holiday").features) > 0

\* C4: at most one polling cycle is in flight at any time
C4_OneCycleInFlight == Cardinality(PollsInFlight) <= 1

\* C5: published snapshots never regress: a snapshot is never replaced by
\* the snapshot of a cycle that started earlier
C5_SnapshotsNeverRegress ==
  [][startPc' # "exited" =>
       \A mode \in Modes : getBuses(mode)'.cycle >= getBuses(mode).cycle]_vars

\* C6: every started polling cycle eventually finishes, also when a feed
\* stops answering
C6_EveryCycleFinishes ==
  \A c \in 1..(2 + MaxTicks) :
     [](c \in Executions /\ InFlight(c)
          => <>(~Alive \/ (c \in Executions /\ Finished(c))))

(* the stop features of a route collection *)
StopFeatures(collection) ==
  { collection.features[k] : k \in { k \in 1..Len(collection.features) :
                                        collection.features[k].properties.type = "stop" } }

\* C20: a failed trip-update refresh does not fail the polling cycle: a cycle
\* fails only by a failure of its position feed, and the step that ends a
\* cycle whose refresh failed publishes its snapshot, the stops of which
\* carry the predictions of the cache as it was left (the vehicles of the
\* feeds run trip T1)
C20_RefreshFailureNotPropagated ==
  [][\A c \in Executions :
       cycles[c].kind = "poll" =>
         /\ (InFlight(c) /\ Len(cycles') >= c /\ cycles'[c].phase = "failed")
              => PositionFailure(c)
         /\ (cycles[c].phase = "reading" /\ cycles[c].tu = "failed"
             /\ Len(cycles') >= c /\ cycles'[c].phase = "done") =>
              /\ tripUpdatesCache' = tripUpdatesCache
              /\ \A mode \in Modes :
                   /\ getBuses(mode)'.cycle = c /\ getRoutes(mode)'.cycle = c
                   /\ \A f \in StopFeatures(getRoutes(mode)') :
                        LET cached == getStopPrediction("T1", f.properties.stopSequence)
                        IN  /\ f.properties.isRealTime = ~IsNull(cached)
                            /\ f.properties.arrivalDelay
                                 = (IF IsNull(cached) THEN None
                                    ELSE Val(cached).arrivalDelay)]_vars

\* a timer cycle whose refresh failed has read its position feed and is
\* about to publish, the cache holding the predictions of an earlier refresh
C20_Witness ==
  /\ \E c \in Executions :
       /\ c > 2 /\ cycles[c].kind = "poll" /\ cycles[c].phase = "reading"
       /\ cycles[c].tu = "failed"
  /\ ~IsNull(getStopPrediction("T1", 2))

\* the group names a caller can pass: the two groups, and names of no group
GroupNames == Modes \cup {"unknown", ""}

IsFeatureCollection(x) ==
  /\ x.type = "FeatureCollection"
  /\ DOMAIN x.features = 1..Len(x.features)

\* C22: in every reachable state, for every group name, known or not,
\* getBuses and getRoutes return a FeatureCollection with a features list
C22_ReadersAlwaysAnswer ==
  \A mode \in GroupNames :
    IsFeatureCollection(getBuses(mode)) /\ IsFeatureCollection(getRoutes(mode))

\* after a failed and a successful polling cycle: the holiday collection has
\* features and the collection of an unknown group is empty
C22_Witness ==
  /\ \E c, d \in Executions :
       /\ cycles[c].kind = "poll" /\ cycles[c].phase = "failed"
       /\ cycles[d].kind = "poll" /\ cycles[d].phase = "done"
  /\ Len(getBuses("holiday").features) > 0
  /\ Len(getBuses("unknown").features) = 0

TimerArmed == startPc \in {"listen", "serving"}

FailedPolls == {c \in Executions : cycles[c].kind = "poll" /\ cycles[c].phase = "failed"}

\* C23: the step in which a polling cycle fails leaves the process running
\* with the repeating timer armed, so that later ticks start new cycles; and
\* when the position feed of a cycle decodes after some cycle has failed, the
\* cycle publishes a snapshot of its own for both groups
C23_PollingSurvivesFailure ==
  [][\A c \in Executions :
       (cycles[c].kind = "poll" /\ Len(cycles') >= c) =>
         /\ (InFlight(c) /\ cycles'[c].phase = "failed") => TimerArmed'
         /\ (FailedPolls # {} /\ cycles[c].phase = "reading" /\ cycles'[c].phase = "done")
              => \A mode \in Modes :
                   getBuses(mode)'.cycle = c /\ getRoutes(mode)'.cycle = c]_vars

\* a polling cycle failed, and a cycle started after it has published
C23_Witness ==
  \E c \in FailedPolls : \E d \in Executions :
    /\ c < d /\ cycles[d].phase = "done"
    /\ getBuses("holiday").cycle = d /\ getRoutes("test").cycle = d

\* C24: a polling cycle publishes route features (the output of its route
\* prediction) only in a step taken when its position fetch has answered and
\* its trip-update refresh has ended, by succeeding or by failing
C24_PredictionAfterBothFetches ==
  [][\A c \in Executions : \A mode \in Modes :
       (getRoutes(mode)'.cycle = c /\ getRoutes(mode).cycle # c) =>
         /\ cycles[c].kind = "poll" /\ cycles[c].phase = "reading"
         /\ cycles[c].pos = "ok"
         /\ cycles[c].tu \in {"ok", "failed"}]_vars

\* the first polling cycle has predicted and published routes
C24_Witness ==
  /\ Len(cycles) = 2
  /\ cycles[2].phase = "done"
  /\ getRoutes("holiday").cycle = 2
  /\ Len(getRoutes("holiday").features) > 0

Started == startPc \in {"select", "first", "listen", "serving"}

\* C27: a step out of the loading state that leaves the store unloaded ends
\* the process with no execution started; an exited process stays exited; and
\* polling is started, and the server listens, only with the store loaded
C27_NoServiceWithoutSchedule ==
  [][/\ (startPc = "load" /\ ~loaded') => (startPc' = "exited" /\ cycles' = << >>)
     /\ startPc = "exited" => (startPc' = "exited" /\ cycles' = << >>)
     /\ (Started' \/ cycles' # << >>) => loaded']_vars

\* the process has exited without a loaded store and without any execution
C27_Witness == startPc = "exited" /\ ~loaded /\ cycles = << >>

\* C29: while the process runs, a step changes the sample group (the set or
\* the list) only if it is the step that completes the startup selection,
\* the first execution; no step of a polling cycle changes it
C29_SampleGroupSetOnce ==
  [][(Alive' /\ (testBusIds' # testBusIds \/ testBusIdList' # testBusIdList)) =>
       /\ Len(cycles) >= 1
       /\ cycles[1].kind = "select" /\ cycles[1].phase = "reading"
       /\ cycles'[1].phase = "done"
       /\ \A c \in Executions : cycles[c].kind = "poll" => cycles'[c] = cycles[c]]_vars

\* a sample group was selected, and polling cycles have since failed and
\* succeeded
C29_Witness ==
  /\ testBusIds = {"5000", "9100"}
  /\ \E c, d \in Executions :
       /\ c > 2 /\ cycles[c].kind = "poll" /\ cycles[c].phase = "done"
       /\ cycles[d].kind = "poll" /\ cycles[d].phase = "failed"

FeatureVehicles(collection) ==
  {collection.features[i].properties.busId : i \in DOMAIN collection.features}

PublishedVehicles(mode) ==
  FeatureVehicles(getBuses(mode)) \cup FeatureVehicles(getRoutes(mode))

\* C30: in every reachable state no vehicle id is in both the holiday set and
\* the sample set, and no vehicle has features in the published collections
\* of both groups
C30_GroupsDisjoint ==
  /\ testBusIds \cap HOLIDAY_BUS_IDS = {}
  /\ PublishedVehicles("holiday") \cap PublishedVehicles("test") = {}

\* both groups have vehicles in the published snapshot
C30_Witness ==
  /\ testBusIds # {}
  /\ FeatureVehicles(getBuses("holiday")) # {}
  /\ FeatureVehicles(getBuses("test")) # {}

\* C34: the step in which a cycle publishes its snapshot leaves the trip-update
\* cache as it is, and the route collections of both groups are the
\* predictions computed against that one cache value, whatever refreshes of
\* other executions are in flight
C34_OneCacheValuePerSnapshot ==
  [][\A c \in Executions :
       (/\ cycles[c].kind = "poll" /\ cycles[c].phase = "reading"
        /\ Len(cycles') >= c /\ cycles'[c].phase = "done") =>
         /\ tripUpdatesCache' = tripUpdatesCache
         /\ \E entities \in PositionFeeds : \E now \in PollInstants :
              \A mode \in Modes :
                /\ getRoutes(mode)'.cycle = c
                /\ getRoutes(mode)'.features =
                     buildRoutesGeoJSON(GroupPositions(entities, 1, mode), now).features]_vars

\* the first timer cycle has published a snapshot whose stops, in both
\* groups, are all scheduled ones, computed against the empty cache; the
\* refresh of the second timer cycle, still in flight, has since replaced the
\* cache
C34_Witness ==
  /\ Len(cycles) = 4
  /\ cycles[4].tu = "ok" /\ InFlight(4)
  /\ cycles[3].phase = "done"
  /\ ~IsNull(getStopPrediction("T1", 2))
  /\ \A mode \in Modes :
       /\ getRoutes(mode).cycle = 3
       /\ StopFeatures(getRoutes(mode)) # {}
       /\ \A f \in StopFeatures(getRoutes(mode)) : ~f.properties.isRealTime

\* C35: the cache never regresses: once the refresh of an execution has
\* published its mapping, the refresh of an execution that started earlier
\* does not replace it
C35_CacheNeverRegresses ==
  [][\A c, d \in Executions : \A feed \in TripUpdateFeeds :
       (c < d /\ cycles[d].tu = "ok" /\ TripUpdatesSuccess(c, feed)) =>
          tripUpdatesCache' = tripUpdatesCache]_vars

\* C36: once the store is loaded, the process eventually arms the poll timer
\* and goes on to listen (or has exited), also when a feed stops answering
\* during the startup selection or the first polling cycle
C36_StartupCompletes == loaded ~> (TimerArmed \/ ~Alive)

\* C37: when the startup selection has failed, the sample group is empty and
\* stays so: no later execution is a selection, and the published collections
\* of the sample group have no vehicle feature and no route or stop feature
C37_FailedSelectionLeavesSampleEmpty ==
  (Len(cycles) >= 1 /\ cycles[1].phase = "failed") =>
     /\ testBusIds = {} /\ testBusIdList = << >>
     /\ \A c \in Executions : c > 1 => cycles[c].kind = "poll"
     /\ getBuses("test").features = << >>
     /\ getRoutes("test").features = << >>

\* the selection failed and a timer cycle has since published a snapshot that
\* shows the holiday vehicles
C37_Witness ==
  /\ Len(cycles) >= 3 /\ cycles[1].phase = "failed"
  /\ \E c \in Executions : c > 2 /\ cycles[c].phase = "done" /\ getBuses("test").cycle = c
  /\ Len(getBuses("holiday").features) > 0
  /\ getBuses("test").features = << >>

\* C33: in every published snapshot, each route or stop feature of a group
\* carries the id of a vehicle that has a point feature in the vehicle
\* collection of the same group
C33_RoutesOnlyForShownVehicles ==
  \A mode \in Modes :
    FeatureVehicles(getRoutes(mode)) \subseteq FeatureVehicles(getBuses(mode))

----------------------------------------------------------------------------
(* Properties of the route predictor                                        *)

Returned == ~IsNull(lastCall) /\ Val(lastCall).returned

Predicted == Returned /\ ~IsNull(Val(lastCall).result)

UpcomingStops == Val(Val(lastCall).result).upcomingStops

Entries == StopTimesJson[Val(lastCall).tripId]

Listed(st) ==
  \E k \in 1..Len(UpcomingStops) : UpcomingStops[k].stopSequence = st.stopSequence

(* the effective arrival time of an entry, in seconds of the day: that of the
   absolute prediction, else the scheduled time plus the predicted delay,
   else the scheduled time; none when there is neither *)
EffectiveArrival(st) ==
  LET prediction == getStopPrediction(Val(lastCall).tripId, st.stopSequence)
  IN  IF ~IsNull(prediction) /\ ~IsNull(Val(prediction).arrivalTime)
      THEN Some(getSecondsOfDay(Val(Val(prediction).arrivalTime)))
      ELSE IF IsNull(st.arrivalSeconds) THEN None
      ELSE IF ~IsNull(prediction) /\ ~IsNull(Val(prediction).arrivalDelay)
      THEN Some(Val(st.arrivalSeconds) + Val(Val(prediction).arrivalDelay))
      ELSE st.arrivalSeconds

Due(st) ==
  /\ ~IsNull(EffectiveArrival(st))
  /\ Val(EffectiveArrival(st)) >= getSecondsOfDay(Val(lastCall).currentTime) - 60
  /\ Val(EffectiveArrival(st)) <= getSecondsOfDay(Val(lastCall).currentTime) + 1800

\* C7: getUpcomingRoute returns null exactly when the trip is unknown, its
\* service is not active on the date of now, or it has no stop-time entries
C7_NullIffNoPrediction ==
  Returned =>
    (IsNull(Val(lastCall).result)
       <=> \/ Val(lastCall).tripId \notin DOMAIN TripsJson
           \/ ~isServiceActiveOnDate(TripsJson[Val(lastCall).tripId].serviceId,
                                     Val(lastCall).currentTime)
           \/ Len(StopTimesJson[Val(lastCall).tripId]) = 0)

\* a result with an empty list of upcoming stops
C7_Witness == Predicted /\ Len(UpcomingStops) = 0 /\ Len(Entries) > 0

\* C8: every stop-time entry that has a scheduled arrival time, whose stop
\* is in the store and whose effective arrival time lies in
\* [nowSec - 60, nowSec + 1800] is in the list of upcoming stops
C8_DueTimedKnownStopsListed ==
  Predicted =>
    \A k \in 1..Len(Entries) :
       /\ ~IsNull(Entries[k].arrivalSeconds)
       /\ Entries[k].stopId \in DOMAIN StopsJson
       /\ Due(Entries[k])
       => Listed(Entries[k])

\* stops at 08:00:00, 08:10:00 and 08:45:00, now = 08:05:00, no prediction:
\* the list is the 08:10:00 stop
C8_Witness ==
  /\ Predicted
  /\ Val(lastCall).tripId = "T1" /\ Val(lastCall).currentTime = At(0, 8, 5, 0)
  /\ tripUpdatesCache = EmptyMap
  /\ Len(UpcomingStops) = 1 /\ UpcomingStops[1].stopSequence = 2

\* C8 as stated: every stop-time entry whose effective arrival time lies in
\* [nowSec - 60, nowSec + 1800] is in the list of upcoming stops
C8_EveryDueStopListed ==
  Predicted => \A k \in 1..Len(Entries) : Due(Entries[k]) => Listed(Entries[k])

\* C9: every stop of the list has an effective arrival time t with
\* nowSec - 60 <= t <= nowSec + 1800
C9_ListedStopsAreDue ==
  Predicted =>
    \A k \in 1..Len(UpcomingStops) :
       \E j \in 1..Len(Entries) :
          /\ Entries[j].stopSequence = UpcomingStops[k].stopSequence
          /\ Due(Entries[j])

\* one second after the back-window of the 08:00:00 stop: it is left out
\* while a stop with a real-time prediction is listed
C9_Witness ==
  /\ Predicted
  /\ Val(lastCall).tripId = "T1" /\ Val(lastCall).currentTime = At(0, 8, 1, 1)
  /\ ~Listed(Entries[1])
  /\ \E k \in 1..Len(UpcomingStops) : UpcomingStops[k].isRealTime

(* the instants at which an entry with a scheduled arrival is due: that of
   the absolute prediction, else the scheduled time (plus the predicted
   delay) counted from the midnight of now's date and, for a GTFS time of
   24:00:00 or more, also from the midnight before *)
ArrivalInstants(st) ==
  LET prediction == getStopPrediction(Val(lastCall).tripId, st.stopSequence)
      midnight == Val(lastCall).currentTime - getSecondsOfDay(Val(lastCall).currentTime)
      seconds == IF ~IsNull(prediction) /\ ~IsNull(Val(prediction).arrivalDelay)
                 THEN Val(st.arrivalSeconds) + Val(Val(prediction).arrivalDelay)
                 ELSE Val(st.arrivalSeconds)
  IN  IF ~IsNull(prediction) /\ ~IsNull(Val(prediction).arrivalTime)
      THEN { Val(Val(prediction).arrivalTime) }
      ELSE IF seconds >= DaySeconds
      THEN { midnight + seconds, midnight + seconds - DaySeconds }
      ELSE { midnight + seconds }

\* C10: a stop the vehicle is predicted to reach within 30 minutes of now is
\* in the list of upcoming stops, also across midnight
C10_StopsOfNextHalfHourListed ==
  Predicted =>
    \A k \in 1..Len(Entries) :
       /\ ~IsNull(Entries[k].arrivalSeconds)
       /\ Entries[k].stopId \in DOMAIN StopsJson
       /\ \E t \in ArrivalInstants(Entries[k]) :
             /\ t >= Val(lastCall).currentTime
             /\ t <= Val(lastCall).currentTime + PREDICTION_WINDOW_MINUTES * 60
       => Listed(Entries[k])

(* the clock reading HH:MM:SS of a number of seconds, modulo 24 hours *)
ClockOf(seconds) ==
  << (seconds % DaySeconds) \div 3600,
     ((seconds % DaySeconds) % 3600) \div 60,
     seconds % 60 >>

WellFormedClock(clock) ==
  /\ Len(clock) = 3
  /\ clock[1] \in 0..23 /\ clock[2] \in 0..59 /\ clock[3] \in 0..59

(* the entry of the trip that a listed stop comes from *)
EntryOf(upcoming) ==
  CHOOSE st \in Range(Entries) : st.stopSequence = upcoming.stopSequence

PredictionOf(st) == getStopPrediction(Val(lastCall).tripId, st.stopSequence)

DelayOnlyPrediction(st) ==
  /\ ~IsNull(PredictionOf(st))
  /\ IsNull(Val(PredictionOf(st)).arrivalTime)
  /\ ~IsNull(Val(PredictionOf(st)).arrivalDelay)

TimedPrediction(st) ==
  ~IsNull(PredictionOf(st)) /\ ~IsNull(Val(PredictionOf(st)).arrivalTime)

DelayedSeconds(st) == Val(st.arrivalSeconds) + Val(Val(PredictionOf(st)).arrivalDelay)

C12_DelayClockWellFormed ==
  Predicted =>
    \A k \in 1..Len(UpcomingStops) :
       LET st == EntryOf(UpcomingStops[k])
       IN  DelayOnlyPrediction(st) =>
             /\ ~IsNull(UpcomingStops[k].predictedArrivalTime)
             /\ WellFormedClock(Val(UpcomingStops[k].predictedArrivalTime))
             /\ Val(UpcomingStops[k].predictedArrivalTime) = ClockOf(DelayedSeconds(st))

\* C13: an entry whose prediction carries an absolute arrival time is listed
\* exactly when the seconds of the day of that time are in the window, and
\* reports the clock reading of that time, isRealTime and the feed's delay
\* (none when the feed has none), whatever scheduled + delay would be
C13_AbsoluteTimeEstimate ==
  Predicted =>
    \A j \in 1..Len(Entries) :
       (/\ ~IsNull(Entries[j].arrivalSeconds)
        /\ Entries[j].stopId \in DOMAIN StopsJson
        /\ TimedPrediction(Entries[j])) =>
         LET time == Val(Val(PredictionOf(Entries[j])).arrivalTime)
             nowSec == getSecondsOfDay(Val(lastCall).currentTime)
         IN  /\ Listed(Entries[j])
                  <=> (time % DaySeconds >= nowSec - 60 /\ time % DaySeconds <= nowSec + 1800)
             /\ \A k \in 1..Len(UpcomingStops) :
                  UpcomingStops[k].stopSequence = Entries[j].stopSequence =>
                    /\ UpcomingStops[k].predictedArrivalTime = Some(ClockOf(time))
                    /\ UpcomingStops[k].isRealTime = TRUE
                    /\ UpcomingStops[k].arrivalDelay
                         = Val(PredictionOf(Entries[j])).arrivalDelay

\* an absolute arrival of 08:12:00 with a delay of 3000 s: the stop is
\* listed at 08:05:00 although scheduled + delay is outside the window
C13_Witness ==
  /\ Predicted /\ Val(lastCall).currentTime = At(0, 8, 5, 0)
  /\ \E k \in 1..Len(UpcomingStops) :
       /\ TimedPrediction(EntryOf(UpcomingStops[k]))
       /\ UpcomingStops[k].predictedArrivalTime = Some(<<8, 12, 0>>)
       /\ UpcomingStops[k].arrivalDelay = Some(3000)
       /\ UpcomingStops[k].isRealTime

(* the 0-based index of the shape point nearest to a position, the first
   one among equally near points *)
NearestIndex(shapePoints, lat, lon) ==
  CHOOSE i \in 0..(Len(shapePoints) - 1) :
    \A j \in 0..(Len(shapePoints) - 1) :
       LET di == haversineDistance(lat, lon, shapePoints[i + 1].lat, shapePoints[i + 1].lon)
           dj == haversineDistance(lat, lon, shapePoints[j + 1].lat, shapePoints[j + 1].lon)
       IN  di <= dj /\ (j < i => dj > di)

CalledShape == ShapesJson[TripsJson[Val(lastCall).tripId].shapeId]

VehicleIndex ==
  NearestIndex(CalledShape, Val(lastCall).currentLat, Val(lastCall).currentLon)

EndIndex ==
  IF Len(UpcomingStops) > 0
  THEN NearestIndex(CalledShape, UpcomingStops[Len(UpcomingStops)].lat,
                    UpcomingStops[Len(UpcomingStops)].lon)
  ELSE Len(CalledShape) - 1

HasShape ==
  /\ Predicted
  /\ TripsJson[Val(lastCall).tripId].shapeId \in DOMAIN ShapesJson
  /\ Len(CalledShape) > 0

\* C14: with the vehicle at shape index v and the endpoint at shape index e,
\* a LineString is emitted exactly when v < e, and it is the e - v + 1 points
\* of the shape at the indices v..e, in shape order
C14_ForwardGeometry ==
  HasShape =>
    LET geometry == Val(lastCall).result[1].routeGeometry
    IN  /\ ~IsNull(geometry) <=> VehicleIndex < EndIndex
        /\ ~IsNull(geometry) =>
             /\ Val(geometry).type = "LineString"
             /\ Len(Val(geometry).coordinates) = EndIndex - VehicleIndex + 1
             /\ \A k \in 1..Len(Val(geometry).coordinates) :
                  Val(geometry).coordinates[k]
                    = << CalledShape[VehicleIndex + k].lon, CalledShape[VehicleIndex + k].lat >>

\* a path from the vehicle at index 1 to the last upcoming stop at index 3,
\* short of the end of the shape
C14_Witness ==
  /\ HasShape
  /\ VehicleIndex = 1 /\ EndIndex = 3 /\ EndIndex < Len(CalledShape) - 1
  /\ Len(Val(Val(lastCall).result[1].routeGeometry).coordinates) = 3

\* the trip of the call is in the store, its service runs on the day of the
\* call, it has stop-time entries and none of them is due in the window
NothingDue ==
  /\ Returned
  /\ Val(lastCall).tripId \in DOMAIN TripsJson
  /\ isServiceActiveOnDate(TripsJson[Val(lastCall).tripId].serviceId,
                           Val(lastCall).currentTime)
  /\ Len(Entries) > 0
  /\ \A st \in Range(Entries) : ~Due(st)

\* C32: for a known, active trip with stop-times of which none is due,
\* getUpcomingRoute returns a result with an empty list of upcoming stops, and
\* when the shape resolves the geometry is the points of the shape from the
\* index of the vehicle to the last one (none when the vehicle is at the last)
C32_NoStopsPathToShapeEnd ==
  NothingDue =>
    /\ Predicted
    /\ Len(UpcomingStops) = 0
    /\ HasShape =>
         LET geometry == Val(lastCall).result[1].routeGeometry
             last == Len(CalledShape) - 1
         IN  /\ IsNull(geometry) <=> VehicleIndex = last
             /\ ~IsNull(geometry) =>
                  Val(geometry).coordinates =
                    [k \in 1..(last - VehicleIndex + 1) |->
                       << CalledShape[VehicleIndex + k].lon,
                          CalledShape[VehicleIndex + k].lat >>]

\* late on Monday no stop of the morning trip is due: the path runs from the
\* vehicle at index 1 to the last point of the shape, index 6
C32_Witness ==
  /\ NothingDue /\ HasShape
  /\ Val(lastCall).tripId = "T1"
  /\ VehicleIndex = 1
  /\ Len(Val(Val(lastCall).result[1].routeGeometry).coordinates) = 6

(* the prediction the cache holds under (tripId, stopSequence) of the call *)
StoredUnder(stopSequence) ==
  IF Val(lastCall).tripId \in DOMAIN tripUpdatesCache
     /\ stopSequence \in DOMAIN tripUpdatesCache[Val(lastCall).tripId]
  THEN Some(tripUpdatesCache[Val(lastCall).tripId][stopSequence])
  ELSE None

\* C26: every listed stop carries the prediction the cache holds under the
\* trip and the stopSequence of its entry, delay and predicted time, and no
\* prediction when the cache holds none there, whatever the cache holds for
\* other entries of the trip at the same stop
C26_PredictionByStopSequence ==
  Predicted =>
    \A k \in 1..Len(UpcomingStops) :
      LET u == UpcomingStops[k]
          stored == StoredUnder(u.stopSequence)
      IN  IF IsNull(stored)
          THEN ~u.isRealTime /\ IsNull(u.arrivalDelay) /\ IsNull(u.predictedArrivalTime)
          ELSE /\ u.arrivalDelay = Val(stored).arrivalDelay
               /\ u.isRealTime = (~IsNull(Val(stored).arrivalTime)
                                  \/ ~IsNull(Val(stored).arrivalDelay))
               /\ ~IsNull(Val(stored).arrivalTime) =>
                    u.predictedArrivalTime =
                      Some(unixToTimeString(Val(Val(stored).arrivalTime)))

\* both calls of the loop trip at stop A are listed, each with its own delay
C26_Witness ==
  /\ Predicted
  /\ Val(lastCall).tripId = "T8"
  /\ \E j, k \in 1..Len(UpcomingStops) :
       /\ UpcomingStops[j].stopSequence = 1 /\ UpcomingStops[k].stopSequence = 3
       /\ UpcomingStops[j].stopId = UpcomingStops[k].stopId
       /\ UpcomingStops[j].arrivalDelay = Some(120)
       /\ UpcomingStops[k].arrivalDelay = Some(-60)

\* the cache holds, under the stopSequence of the call's trip, a prediction
\* with departure data and no arrival data
DepartureOnly(stopSequence) ==
  LET stored == StoredUnder(stopSequence)
  IN  /\ ~IsNull(stored)
      /\ IsNull(Val(stored).arrivalTime) /\ IsNull(Val(stored).arrivalDelay)
      /\ ~IsNull(Val(stored).departureTime) \/ ~IsNull(Val(stored).departureDelay)

\* C38: for every upcoming stop returned, isRealTime is true exactly when
\* predictedArrivalTime is present, a present arrivalDelay implies isRealTime,
\* and a stop whose cached prediction carries departure data only is not real
\* time and has no predicted time and no delay
C38_RealTimeFlagConsistent ==
  Predicted =>
    \A k \in 1..Len(UpcomingStops) :
      LET u == UpcomingStops[k]
      IN  /\ u.isRealTime <=> ~IsNull(u.predictedArrivalTime)
          /\ ~IsNull(u.arrivalDelay) => u.isRealTime
          /\ DepartureOnly(u.stopSequence) =>
               ~u.isRealTime /\ IsNull(u.predictedArrivalTime) /\ IsNull(u.arrivalDelay)

\* a returned list with a stop predicted from departure data only
C38_Witness ==
  /\ Predicted
  /\ \E k \in 1..Len(UpcomingStops) :
       DepartureOnly(UpcomingStops[k].stopSequence) /\ ~UpcomingStops[k].isRealTime

----------------------------------------------------------------------------
(* The service calendar on its own: a loaded store and one call of          *)
(* isServiceActiveOnDate                                                    *)

\* NA has no record in any table
CalendarServices == {"WK", "SUN", "HOL", "XX", "NA"}

\* the days from 2025-12-01 to 2026-01-15, early, at noon and late
CalendarInstants ==
  { At(day, h, h, h) : day \in 0..45, h \in {0, 12, 23} }

ServiceQuery(serviceId, date) ==
  [serviceId |-> serviceId, date |-> date, returned |-> FALSE, result |-> FALSE]

CalendarInit ==
  /\ loaded = TRUE
  /\ tripUpdatesCache = EmptyMap
  /\ testBusIds = {} /\ testBusIdList = << >>
  /\ currentData = InitialData
  /\ startPc = "serving"
  /\ cycles = << >>
  /\ feedsUp = TRUE
  /\ lastCall \in { Some(ServiceQuery(serviceId, date)) :
                      serviceId \in CalendarServices, date \in CalendarInstants }

(* the call returns *)
CheckService ==
  /\ ~IsNull(lastCall) /\ ~Val(lastCall).returned
  /\ lastCall' = Some([Val(lastCall) EXCEPT
                         !.returned = TRUE,
                         !.result = isServiceActiveOnDate(Val(lastCall).serviceId,
                                                          Val(lastCall).date)])
  /\ UNCHANGED <<loaded, tripUpdatesCache, testBusIds, testBusIdList, currentData,
                 startPc, cycles, feedsUp>>

CalendarNext == CheckService

CalendarSpec == CalendarInit /\ [][CalendarNext]_vars

----------------------------------------------------------------------------
(* Properties of the service calendar                                       *)

(* the YYYYMMDD key and the weekday of the local date of an instant, from
   the calendar of December 2025 and January 2026 *)
DayNumber(date) == date \div DaySeconds

DateKey(date) ==
  IF DayNumber(date) <= 30 THEN 20251201 + DayNumber(date)
  ELSE 20260101 + (DayNumber(date) - 31)

WeeklyFlag(cal, date) ==
  << cal.monday, cal.tuesday, cal.wednesday, cal.thursday, cal.friday,
     cal.saturday, cal.sunday >>[(DayNumber(date) % 7) + 1]

Queried == Val(lastCall).serviceId

QueriedDate == Val(lastCall).date

HasCalendar == Queried \in DOMAIN CalendarJson

InRange ==
  /\ DateKey(QueriedDate) >= CalendarJson[Queried].startDate
  /\ DateKey(QueriedDate) <= CalendarJson[Queried].endDate

ExceptionsOfDate ==
  IF Queried \in DOMAIN CalendarDatesJson
  THEN { e \in Range(CalendarDatesJson[Queried]) : e.date = DateKey(QueriedDate) }
  ELSE {}

\* C15: a date before the calendar's startDate or after its endDate is
\* inactive, also when an added date (exception type 1) exists for it
C15_OutOfRangeInactive ==
  (Returned /\ HasCalendar /\ ~InRange) => Val(lastCall).result = FALSE

\* an added date outside the range of its service was asked for
C15_Witness ==
  /\ Returned /\ HasCalendar /\ ~InRange
  /\ \E e \in ExceptionsOfDate : e.exceptionType = 1
  /\ Val(lastCall).result = FALSE

\* C16: inside the range of a known service, an exception of the date
\* decides (active exactly when its type is 1) whatever the weekday flag;
\* without one the weekly flag of the date's weekday decides
C16_ExceptionThenWeekday ==
  (Returned /\ HasCalendar /\ InRange) =>
     /\ \A e \in ExceptionsOfDate : Val(lastCall).result = (e.exceptionType = 1)
     /\ ExceptionsOfDate = {} =>
          Val(lastCall).result = WeeklyFlag(CalendarJson[Queried], QueriedDate)

\* an added Saturday of a service that does not run on Saturdays is active
C16_Witness ==
  /\ Returned /\ HasCalendar /\ InRange
  /\ \E e \in ExceptionsOfDate : e.exceptionType = 1
  /\ ~WeeklyFlag(CalendarJson[Queried], QueriedDate)
  /\ Val(lastCall).result = TRUE

\* C17: a service without a calendar record is inactive on every date, also
\* on its added dates, and every trip of it has no prediction
C17_NoCalendarInactive ==
  (Returned /\ ~HasCalendar) =>
     /\ Val(lastCall).result = FALSE
     /\ \A tripId \in DOMAIN TripsJson :
          TripsJson[tripId].serviceId = Queried =>
            IsNull(getUpcomingRoute(tripId, 1, 7, QueriedDate))

\* the added date of a service that has exceptions only was asked for
C17_Witness ==
  /\ Returned /\ ~HasCalendar
  /\ \E e \in ExceptionsOfDate : e.exceptionType = 1
  /\ \E tripId \in DOMAIN TripsJson : TripsJson[tripId].serviceId = Queried
  /\ Val(lastCall).result = FALSE

----------------------------------------------------------------------------
(* The trip-update cache on its own: calls of fetchTripUpdates, each with   *)
(* the feed it decoded or the failure it met                                *)

\* stop-time updates with and without a stop sequence, an arrival and a
\* departure; an arrival time of 0 is what an unset time decodes to
CacheUpdates ==
  { StopTimeUpdate(seq, "B", a, d) :
      seq \in {None, Some(1), Some(2)},
      a \in {None, DelayOnly(120), TimeOnly(0)},
      d \in {None, DelayOnly(60)} }

\* feeds of no entity, of one entity (of T1, T2 or without a trip id) and
\* of an entity of T1 followed by one of T2
CacheFeeds ==
  { << >> }
  \cup { << TripUpdateEntity(t, << u >>) >> : t \in {"T1", "T2", ""}, u \in CacheUpdates }
  \cup { << TripUpdateEntity("T1", << StopTimeUpdate(Some(1), "A", None, None),
                                      StopTimeUpdate(Some(q), "B", a, None) >>),
            TripUpdateEntity("T2", << StopTimeUpdate(Some(1), "A", a, None) >>) >> :
           q \in {1, 2}, a \in {None, DelayOnly(120)} }

CacheInit ==
  /\ loaded = TRUE
  /\ tripUpdatesCache = EmptyMap
  /\ testBusIds = {} /\ testBusIdList = << >>
  /\ currentData = InitialData
  /\ startPc = "serving"
  /\ cycles = << >>
  /\ feedsUp = TRUE
  /\ lastCall = None

(* what the last call of fetchTripUpdates met, and the mapping it found *)
Refreshed(ok, feed) ==
  Some([ok |-> ok, feed |-> feed, previous |-> tripUpdatesCache])

(* fetchTripUpdates fetched and decoded `feed` *)
RefreshSuccess(feed) ==
  /\ tripUpdatesCache' = CacheAfterSuccess(tripUpdatesCache, feed)
  /\ lastCall' = Refreshed(TRUE, feed)
  /\ UNCHANGED <<loaded, testBusIds, testBusIdList, currentData, startPc, cycles, feedsUp>>

(* fetchTripUpdates threw *)
RefreshFailure ==
  /\ tripUpdatesCache' = CacheAfterFailure(tripUpdatesCache)
  /\ lastCall' = Refreshed(FALSE, << >>)
  /\ UNCHANGED <<loaded, testBusIds, testBusIdList, currentData, startPc, cycles, feedsUp>>

CacheNext ==
  \/ \E feed \in CacheFeeds : RefreshSuccess(feed)
  \/ RefreshFailure

CacheSpec == CacheInit /\ [][CacheNext]_vars

----------------------------------------------------------------------------
(* Properties of the trip-update cache                                      *)

CacheKeys == {"T1", "T2", "T9", ""} \X {1, 2, 3}

JustRefreshed == ~IsNull(lastCall) /\ Val(lastCall).ok

(* the stop-time updates of the feed for a trip and a stop sequence (the
   feeds name a trip in at most one entity) *)
UpdatesFor(feed, tripId, stopSequence) ==
  { u \in UNION { Range(feed[i].stopTimeUpdate) :
                    i \in {i \in 1..Len(feed) : feed[i].tripId = tripId} } :
      u.stopSequence = Some(stopSequence) }

\* C18: after a successful refresh getStopPrediction answers exactly for the
\* (tripId, stopSequence) pairs of the decoded feed, with what the feed says;
\* a pair that had a prediction and is not in the feed has none
C18_CacheReplacedByFeed ==
  JustRefreshed =>
    \A key \in CacheKeys :
       LET updates == IF key[1] = "" THEN {}
                      ELSE UpdatesFor(Val(lastCall).feed, key[1], key[2])
           prediction == getStopPrediction(key[1], key[2])
       IN  /\ IsNull(prediction) <=> updates = {}
           /\ ~IsNull(prediction) =>
                \E u \in updates :
                   /\ Val(prediction).stopId = u.stopId
                   /\ Val(prediction).arrivalDelay
                        = (IF IsNull(u.arrival) THEN None ELSE Val(u.arrival).delay)

\* a pair that had a prediction before the refresh and is absent from the
\* decoded feed has none afterwards, while the feed's own pair has one
C18_Witness ==
  /\ JustRefreshed
  /\ \E key \in CacheKeys :
       /\ ~IsNull(getStopPredictionIn(Val(lastCall).previous, key[1], key[2]))
       /\ UpdatesFor(Val(lastCall).feed, key[1], key[2]) = {}
       /\ IsNull(getStopPrediction(key[1], key[2]))
  /\ \E key \in CacheKeys : ~IsNull(getStopPrediction(key[1], key[2]))

Informative(prediction) ==
  \/ ~IsNull(prediction.arrivalTime) \/ ~IsNull(prediction.arrivalDelay)
  \/ ~IsNull(prediction.departureTime) \/ ~IsNull(prediction.departureDelay)

\* C19: every trip of the cache has at least one stop prediction that
\* carries an arrival or departure time or delay
C19_CachedTripsInformative ==
  \A tripId \in DOMAIN tripUpdatesCache :
     \E stopSequence \in DOMAIN tripUpdatesCache[tripId] :
        Informative(tripUpdatesCache[tripId][stopSequence])


----------------------------------------------------------------------------
(* One execution of fetchVehiclePositions on its own: the store is loaded, *)
(* the startup selection is over, both fetches of the execution have        *)
(* settled, and the position body decodes to a feed of up to MaxFeedLen     *)
(* entities                                                                 *)

\* what a FeedEntity of the position feed can be: tracked vehicles that can
\* be routed, tracked vehicles without a trip, without a position, on an
\* unknown trip, on a Sunday-only trip or on a trip without stop-times, a
\* vehicle of no group, and an entity without a vehicle id
ReconcileEntities ==
  { VehicleEntity("3090", LatLon(2, 7), "T1"),
    VehicleEntity("3069", LatLon(0, 7), "T1"),
    VehicleEntity("3019", LatLon(2, 7), ""),
    VehicleEntity("3817", None, "T1"),
    VehicleEntity("3364", LatLon(2, 7), "T9"),
    VehicleEntity("3160", LatLon(2, 7), "T2"),
    VehicleEntity("9034", LatLon(2, 7), "T3"),
    VehicleEntity("5000", LatLon(1, 7), "T1"),
    VehicleEntity("5000", None, ""),
    VehicleEntity("9100", LatLon(3, 7), "T1"),
    VehicleEntity("7000", LatLon(2, 7), "T1"),
    VehicleEntity("", LatLon(2, 7), "T1") }

MaxFeedLen == 3

ReconcileFeeds == UNION { [1..n -> ReconcileEntities] : n \in 0..MaxFeedLen }

\* Monday 08:05:00 and Sunday 08:05:00
ReconcileInstants == { At(0, 8, 5, 0), At(6, 8, 5, 0) }

\* the sample group the startup selection left: empty when it failed
StartupSelections ==
  { << >> } \cup
  UNION { Selections(entities, now) : entities \in PositionFeeds, now \in PollInstants }

ReconcileInit ==
  /\ loaded = TRUE
  /\ tripUpdatesCache \in
       { EmptyMap } \cup { CacheAfterSuccess(EmptyMap, feed) : feed \in TripUpdateFeeds }
  /\ testBusIdList \in StartupSelections
  /\ testBusIds = Range(testBusIdList)
  /\ currentData = InitialData
  /\ startPc = "first"
  /\ cycles = << Ended("select", IF testBusIdList = << >> THEN "failed" ELSE "done", "ok"),
                 [kind |-> "poll", phase |-> "reading", pos |-> "ok",
                  tu |-> IF tripUpdatesCache = EmptyMap THEN "failed" ELSE "ok"] >>
  /\ feedsUp = TRUE
  /\ lastCall \in { Some([entities |-> entities, now |-> now]) :
                      entities \in ReconcileFeeds, now \in ReconcileInstants }

(* the body decodes and the execution runs to its end *)
ReconcileOnce ==
  /\ ~IsNull(lastCall)
  /\ Reconcile(2, Val(lastCall).entities, Val(lastCall).now)

ReconcileNext == ReconcileOnce

ReconcileSpec == ReconcileInit /\ [][ReconcileNext]_vars

----------------------------------------------------------------------------
(* Properties of one reconciliation                                         *)

Reconciled == ~IsNull(lastCall) /\ Len(cycles) >= 2 /\ cycles[2].phase = "done"

DecodedFeed == Val(lastCall).entities

ReconciledAt == Val(lastCall).now

Tracked(e, mode) ==
  /\ e.vehicleId # ""
  /\ IF mode = "holiday" THEN e.vehicleId \in HOLIDAY_BUS_IDS ELSE e.vehicleId \in testBusIds

\* no tripId, no fix, a trip the store does not know, a service that does
\* not run on the day, or a trip without stop-times
Unroutable(e, now) ==
  \/ e.tripId = ""
  \/ IsNull(e.position)
  \/ e.tripId \notin DOMAIN TripsJson
  \/ ~isServiceActiveOnDate(TripsJson[e.tripId].serviceId, now)
  \/ Len(StopTimesJson[e.tripId]) = 0

Without(s, k) == [i \in 1..(Len(s) - 1) |-> IF i < k THEN s[i] ELSE s[i + 1]]

FeaturesOfVehicle(collection, vehicleId) ==
  {i \in DOMAIN collection.features : collection.features[i].properties.busId = vehicleId}

\* C21: a tracked vehicle of the decoded feed that has no tripId, no fix, an
\* unknown trip, an inactive service or no stop-times leaves the route and stop
\* features of its group as they would be without its entity in the feed, and
\* a vehicle that has only such entities has no route or stop feature
C21_UnroutableVehicleLeavesOthersAlone ==
  Reconciled =>
    \A mode \in Modes : \A k \in DOMAIN DecodedFeed :
      (Tracked(DecodedFeed[k], mode) /\ Unroutable(DecodedFeed[k], ReconciledAt)) =>
        /\ getRoutes(mode).features =
             buildRoutesGeoJSON(GroupPositions(Without(DecodedFeed, k), 1, mode),
                                ReconciledAt).features
        /\ (\A j \in DOMAIN DecodedFeed :
              DecodedFeed[j].vehicleId = DecodedFeed[k].vehicleId
                => Unroutable(DecodedFeed[j], ReconciledAt))
             => FeaturesOfVehicle(getRoutes(mode), DecodedFeed[k].vehicleId) = {}

\* a tracked vehicle without a tripId comes first in the feed, and another
\* vehicle of its group has route and stop features
C21_Witness ==
  /\ Reconciled
  /\ Len(DecodedFeed) >= 2
  /\ DecodedFeed[1].vehicleId = "3019"
  /\ Len(getRoutes("holiday").features) > 0



Group(mode) == IF mode = "holiday" THEN HOLIDAY_BUS_IDS ELSE testBusIds

\* the feed has an entity of vehicle v with a position (a latitude and a
\* longitude)
ReportedWithFix(entities, v) ==
  \E k \in DOMAIN entities :
    entities[k].vehicleId = v /\ ~IsNull(entities[k].position)

OneFeaturePerReportedVehicle(collection, entities, mode) ==
  /\ \A v \in Group(mode) :
       Cardinality(FeaturesOfVehicle(collection, v)) =
         IF ReportedWithFix(entities, v) THEN 1 ELSE 0
  /\ \A i \in DOMAIN collection.features :
       collection.features[i].properties.busId \in Group(mode)

\* C25: the vehicle collection a cycle publishes for a group has exactly one
\* feature for each vehicle of the group that the decoded feed reports with a
\* latitude and a longitude, and no feature of any other vehicle
C25_OneFeaturePerReportedVehicle ==
  [][\A c \in Executions : \A entities \in PositionFeeds : \A now \in PollInstants :
       Reconcile(c, entities, now) =>
         \A mode \in Modes :
           OneFeaturePerReportedVehicle(getBuses(mode)', entities, mode)]_vars



----------------------------------------------------------------------------
(* selectRandomTestBuses on its own: the store is loaded, both fetches of   *)
(* the startup execution have settled and the position body decodes to one  *)
(* of the startup feeds                                                     *)

\* vehicles that the selection has to leave out: a holiday bus, a vehicle on
\* a Sunday-only trip, without position, without trip, at latitude 0, on a
\* trip without stop-times, and an entity without vehicle id
Unselectable ==
  << VehicleEntity("3090", LatLon(2, 7), "T1"),
     VehicleEntity("7000", LatLon(2, 7), "T2"),
     VehicleEntity("6000", None, "T1"),
     VehicleEntity("6001", LatLon(2, 7), ""),
     VehicleEntity("6002", LatLon(0, 7), "T1"),
     VehicleEntity("6003", LatLon(2, 7), "T3"),
     VehicleEntity("", LatLon(2, 7), "T1") >>

\* more buses than TEST_BUS_COUNT; more trolleys than TEST_TROLLEY_COUNT; the
\* feed of the polling model; a feed that lists a vehicle twice; an empty feed
StartupFeeds ==
  { Unselectable \o
      [k \in 1..7 |-> VehicleEntity(<< "5000", "5001", "5002", "5003", "5004", "5005",
                                       "5006" >>[k], LatLon(1, 7), "T1")] \o
      << VehicleEntity("9100", LatLon(3, 7), "T1") >>,
    Unselectable \o
      << VehicleEntity("5000", LatLon(1, 7), "T1") >> \o
      [k \in 1..5 |-> VehicleEntity(<< "9100", "9101", "9102", "9103", "9104" >>[k],
                                    LatLon(3, 7), "T8")],
    << VehicleEntity("5000", LatLon(1, 7), "T1"),
       VehicleEntity("5000", LatLon(2, 7), "T1"),
       VehicleEntity("9100", LatLon(3, 7), "T1") >>,
    << >> } \cup PositionFeeds

\* Monday 08:05:00, Monday 12:00:00 (no stop is due) and Sunday 08:05:00
StartupInstants == { At(0, 8, 5, 0), At(0, 12, 0, 0), At(6, 8, 5, 0) }

SelectInit ==
  /\ loaded = TRUE
  /\ tripUpdatesCache \in
       { EmptyMap } \cup { CacheAfterSuccess(EmptyMap, feed) : feed \in TripUpdateFeeds }
  /\ testBusIds = {} /\ testBusIdList = << >>
  /\ currentData = InitialData
  /\ startPc = "select"
  /\ cycles = << [kind |-> "select", phase |-> "reading", pos |-> "ok",
                  tu |-> IF tripUpdatesCache = EmptyMap THEN "failed" ELSE "ok"] >>
  /\ feedsUp = TRUE
  /\ lastCall \in { Some([entities |-> entities, now |-> now]) :
                      entities \in StartupFeeds, now \in StartupInstants }

(* the body decodes and the selection runs to its end *)
SelectOnce ==
  /\ ~IsNull(lastCall)
  /\ SelectTestBuses(1, Val(lastCall).entities, Val(lastCall).now)

SelectNext == SelectOnce

SelectSpec == SelectInit /\ [][SelectNext]_vars

----------------------------------------------------------------------------
(* Properties of the startup selection                                      *)

Selected == Len(cycles) >= 1 /\ cycles[1].kind = "select" /\ cycles[1].phase = "done"

StartupFeed == Val(lastCall).entities

SelectedAt == Val(lastCall).now

\* the startup feed has an entity of vehicle v with a position and a tripId
\* for which the Route Predictor lists at least one upcoming stop
HadUpcomingStops(v) ==
  \E k \in DOMAIN StartupFeed :
    LET e == StartupFeed[k]
    IN  /\ e.vehicleId = v
        /\ ~IsNull(e.position)
        /\ e.tripId # ""
        /\ LET route == getUpcomingRoute(e.tripId, Val(e.position).latitude,
                                         Val(e.position).longitude, SelectedAt)
           IN  ~IsNull(route) /\ Len(Val(route).upcomingStops) > 0

\* C28: after the startup selection every vehicle of the sample group is
\* outside the holiday set and had a position, a tripId and a non-empty list
\* of upcoming stops in the startup feed; the group has at most TEST_BUS_COUNT
\* vehicles that are not trolleys and at most TEST_TROLLEY_COUNT trolleys
C28_SampleGroupWellChosen ==
  Selected =>
    /\ \A v \in testBusIds : v \notin HOLIDAY_BUS_IDS /\ HadUpcomingStops(v)
    /\ Cardinality({v \in testBusIds : ~IsTrolleyId(v)}) <= TEST_BUS_COUNT
    /\ Cardinality({v \in testBusIds : IsTrolleyId(v)}) <= TEST_TROLLEY_COUNT
    /\ testBusIds = Range(testBusIdList)

\* six of seven candidate buses were taken
C28_Witness ==
  /\ Selected
  /\ Cardinality({v \in testBusIds : ~IsTrolleyId(v)}) = TEST_BUS_COUNT
  /\ Cardinality({k \in DOMAIN StartupFeed : StartupFeed[k].vehicleId \in
                     {"5000", "5001", "5002", "5003", "5004", "5005", "5006"}}) = 7




----------------------------------------------------------------------------
(* The static files on their way into the store: the conversion tool groups *)
(* and sorts the rows of stop_times.txt and shapes.txt and writes them as   *)
(* JSON, and loadGtfsData parses whatever files it finds                    *)

\* rows of a table per file
MaxRecords == 3

\* a row of stop_times.txt or shapes.txt, reduced to its id and its sequence
\* field; parseInt gives NaN (None here, null once written as JSON) for a
\* field that does not start with a digit
RawRecords ==
  { [id |-> id, sequence |-> q] : id \in {"X", "Y"}, q \in {None, Some(1), Some(2), Some(3)} }

RawTables == UNION { [1..n -> RawRecords] : n \in 0..MaxRecords }

Orders(n) == {p \in [1..n -> 1..n] : \A i, j \in 1..n : p[i] = p[j] => i = j}

(* a conversion that would write the rows in the order of the table *)
Unsorted(rows) == { rows }

(* Array.prototype.sort((a, b) => a.sequence - b.sequence): a stable sort by
   sequence; with a NaN sequence the comparator is inconsistent and the order
   is whatever the engine leaves *)
SortBySequence(rows) ==
  LET n == Len(rows)
  IN  IF \E i \in 1..n : IsNull(rows[i].sequence)
      THEN { [i \in 1..n |-> rows[p[i]]] : p \in Orders(n) }
      ELSE { [i \in 1..n |-> rows[p[i]]] :
               p \in { q \in Orders(n) :
                        \A i, j \in 1..n : i < j =>
                          \/ Val(rows[q[i]].sequence) < Val(rows[q[j]].sequence)
                          \/ /\ Val(rows[q[i]].sequence) = Val(rows[q[j]].sequence)
                             /\ q[i] < q[j] } }

(* the rows of one trip or shape, in the order of the table *)
RowsOf(records, id) == SelectSeq(records, LAMBDA r : r.id = id)

IdsOf(records) == {records[i].id : i \in DOMAIN records}

(* processStopTimes / processShapes: the objects the tool can write *)
processTable(records) ==
  LET sorted == [id \in IdsOf(records) |-> SortBySequence(RowsOf(records, id))]
  IN  { f \in [IdsOf(records) -> UNION {sorted[id] : id \in IdsOf(records)}] :
          \A id \in IdsOf(records) : f[id] \in sorted[id] }

(* a file of the same layout written by anything else *)
GroupedOnly(records) == [id \in IdsOf(records) |-> RowsOf(records, id)]

LoadInit ==
  /\ loaded = FALSE
  /\ tripUpdatesCache = EmptyMap
  /\ testBusIds = {} /\ testBusIdList = << >>
  /\ currentData = InitialData
  /\ startPc = "load"
  /\ cycles = << >>
  /\ feedsUp = TRUE
  /\ \E table \in {"stop_times", "shapes"}, records \in RawTables, tool \in BOOLEAN :
       lastCall = Some([table |-> table, records |-> records, tool |-> tool,
                        file |-> IF tool THEN None ELSE Some(GroupedOnly(records)),
                        store |-> None])

(* the tool converts stop_times.txt *)
ConvertStopTimes ==
  /\ Val(lastCall).table = "stop_times" /\ Val(lastCall).tool /\ IsNull(Val(lastCall).file)
  /\ \E f \in processTable(Val(lastCall).records) :
       lastCall' = Some([Val(lastCall) EXCEPT !.file = Some(f)])
  /\ UNCHANGED <<loaded, tripUpdatesCache, testBusIds, testBusIdList, currentData,
                 startPc, cycles, feedsUp>>

(* the tool converts shapes.txt *)
ConvertShapes ==
  /\ Val(lastCall).table = "shapes" /\ Val(lastCall).tool /\ IsNull(Val(lastCall).file)
  /\ \E f \in processTable(Val(lastCall).records) :
       lastCall' = Some([Val(lastCall) EXCEPT !.file = Some(f)])
  /\ UNCHANGED <<loaded, tripUpdatesCache, testBusIds, testBusIdList, currentData,
                 startPc, cycles, feedsUp>>

(* loadGtfsData: the table of the store is the parsed file, as it is *)
LoadFiles ==
  /\ startPc = "load" /\ ~IsNull(Val(lastCall).file)
  /\ lastCall' = Some([Val(lastCall) EXCEPT !.store = Val(lastCall).file])
  /\ loaded' = TRUE
  /\ startPc' = "select"
  /\ cycles' = << NewExecution("select") >>
  /\ UNCHANGED <<tripUpdatesCache, testBusIds, testBusIdList, currentData, feedsUp>>

LoadNext == ConvertStopTimes \/ ConvertShapes \/ LoadFiles

LoadSpec == LoadInit /\ [][LoadNext]_vars

----------------------------------------------------------------------------
(* Properties of the load                                                   *)

StoreLoaded == ~IsNull(lastCall) /\ ~IsNull(Val(lastCall).store)

StoredTable == Val(Val(lastCall).store)

NonDecreasing(rows) ==
  \A i, j \in DOMAIN rows :
    i < j => /\ ~IsNull(rows[i].sequence) /\ ~IsNull(rows[j].sequence)
             /\ Val(rows[i].sequence) <= Val(rows[j].sequence)

IntegerSequences ==
  \A i \in DOMAIN Val(lastCall).records : ~IsNull(Val(lastCall).records[i].sequence)

\* C31 (as stated): after the load every list of the store is in
\* non-decreasing sequence order, whatever the files held
C31_ListsSortedAfterLoad ==
  StoreLoaded => \A id \in DOMAIN StoredTable : NonDecreasing(StoredTable[id])

\* C31 (amended): after the load every list of the store is in non-decreasing
\* sequence order when the file was written by the conversion tool from a
\* table whose sequence fields are all integers
C31_ToolFilesSortedAfterLoad ==
  (StoreLoaded /\ Val(lastCall).tool /\ IntegerSequences) =>
    \A id \in DOMAIN StoredTable : NonDecreasing(StoredTable[id])

\* the tool was given a table out of order and the store holds its rows
C31_Witness ==
  /\ StoreLoaded /\ Val(lastCall).tool /\ IntegerSequences
  /\ Val(lastCall).table = "shapes"
  /\ \E id \in DOMAIN StoredTable :
       /\ Len(StoredTable[id]) = 3
       /\ ~NonDecreasing(RowsOf(Val(lastCall).records, id))

=============================================================================
